---------------------------- MODULE Spec2Model ----------------------------
(***************************************************************************)
(* Model of the query-understanding and ranking engine of the shopping     *)
(* navigator backend (backend/app): the constraint parser                  *)
(* (agents/parser_agent.py), the title attribute extractor                 *)
(* (services/utils.py) and the scorer / deduplicator / ranker              *)
(* (services/scoring.py).                                                  *)
(*                                                                         *)
(* Texts are TLA+ strings; a character is a string of length 1.            *)
(* Python's None is the empty tuple <<>>, a present optional value v is    *)
(* the 1-tuple <<v>>.  A dict is a function whose DOMAIN is its key set.   *)
(* Floating-point scores are fixed-point integers in units of 10^-6        *)
(* (Unit): 1.0 is 1000000.  Where the code's result hangs on the bits of a *)
(* double the model follows the double: the capacity test                  *)
(* abs(got - want) <= 0.5 is decided as IEEE-754 decides it, and the order *)
(* of two scores closer than the six decimals tell apart is left open.     *)
(***************************************************************************)
EXTENDS Integers, Sequences, FiniteSets, TLC

VARIABLES
    pc,           \* position of the operation under study
    query,        \* GraphState.query / the text handed to parse_constraints
    constraints,  \* GraphState.constraints (dict)
    k,            \* GraphState.k
    raw_results,  \* GraphState.raw_results: the merged listing list
    items,        \* rank_products: the de-duplicated list
    items2,       \* dedup applied to its own output
    ranked,       \* GraphState.ranked
    product,      \* the listing handed to score_product
    score,        \* result of score_product
    attr_score,   \* result of attribute_match_score
    title,        \* the text handed to parse_generic_attrs_from_title
    attrs,        \* result of parse_generic_attrs_from_title
    max_price,    \* run_pipeline: the max_price argument
    category_hint,\* run_pipeline: the category_hint argument
    summary,      \* GraphState.summary
    sites,        \* GraphState.sites, then navigate_and_extract's sites argument
    tasks,        \* navigate_and_extract: one run_site task per site
    session,      \* navigate_and_extract: what is open, what was raised
    specs,        \* result of _build_specs
    price_score   \* score_product: the price fitness term

ext_vars == <<max_price, category_hint, summary, sites, tasks, session,
              specs, price_score>>

vars == <<pc, query, constraints, k, raw_results, items, items2, ranked,
          product, score, attr_score, title, attrs, ext_vars>>

-----------------------------------------------------------------------------
(* Optional values and small arithmetic *)

None == <<>>

Some(v) == <<v>>

Val(o) == o[1]

Min2(a, b) == IF a <= b THEN a ELSE b

Max2(a, b) == IF a >= b THEN a ELSE b

SetMin(S) == CHOOSE x \in S : \A y \in S : x <= y

-----------------------------------------------------------------------------
(* Characters.  Alphabet lists the characters the model's texts use, in    *)
(* code-point order, which is the order sorted() uses on str.              *)

Alphabet == " &,-.0123456789<=ABCDEFGHIJKLMNOPQRSTUVWXYZabcdefghijklmnopqrstuvwxyz"

Ch(s, i) == SubSeq(s, i, i)

Chars == {Ch(Alphabet, i) : i \in 1..Len(Alphabet)}

Ord == [c \in Chars |-> CHOOSE i \in 1..Len(Alphabet) : Ch(Alphabet, i) = c]

Digits == {"0", "1", "2", "3", "4", "5", "6", "7", "8", "9"}

IsDigit(c) == c \in Digits

\* \s of the re module, restricted to the alphabet
IsSpace(c) == c = " "

\* \w of the re module, restricted to the alphabet
IsWord(c) == c \in Chars /\ (Ord[c] \in 6..15 \/ Ord[c] >= 18)

\* str.lower() on one character
LowerCh(c) == IF c \in Chars /\ Ord[c] \in 18..43 THEN Ch(Alphabet, Ord[c] + 26) ELSE c

RECURSIVE lower(_)
lower(s) == IF s = "" THEN "" ELSE LowerCh(Head(s)) \o lower(Tail(s))

\* the text s[i..j) exists and equals lit
LitAt(s, i, lit) ==
    /\ i >= 1
    /\ i + Len(lit) - 1 <= Len(s)
    /\ SubSeq(s, i, i + Len(lit) - 1) = lit

\* Python's `w in text` on strings
Contains(s, w) == \E i \in 1..(Len(s) - Len(w) + 1) : LitAt(s, i, w)

\* \b at the gap before character i (i in 1..Len(s)+1)
Boundary(s, i) ==
    LET before == IF i > 1 /\ i - 1 <= Len(s) THEN IsWord(Ch(s, i - 1)) ELSE FALSE
        after  == IF i >= 1 /\ i <= Len(s) THEN IsWord(Ch(s, i)) ELSE FALSE
    IN  before # after

\* length of the longest run of digits (\d+) that starts at i
RECURSIVE DigitRun(_, _)
DigitRun(s, i) ==
    IF i >= 1 /\ i <= Len(s) /\ IsDigit(Ch(s, i)) THEN 1 + DigitRun(s, i + 1) ELSE 0

\* length of the longest run of blanks (\s*) that starts at i
RECURSIVE SpaceRun(_, _)
SpaceRun(s, i) ==
    IF i >= 1 /\ i <= Len(s) /\ IsSpace(Ch(s, i)) THEN 1 + SpaceRun(s, i + 1) ELSE 0

-----------------------------------------------------------------------------
(* similar(a, b): rapidfuzz.fuzz.token_set_ratio on the raw strings (no     *)
(* preprocessing), as a fixed-point number: SimUnit is 1.0 on the 0..100    *)
(* scale, so 100.0 is 1000000.  A non-integral ratio is rounded up, which   *)
(* leaves every comparison with an integer threshold (> 88) exact.          *)

SimUnit == 10000

\* str.split(): the maximal runs of non-whitespace characters, in order
IsNonSpace(c) == ~IsSpace(c)

RECURSIVE TokenRun(_, _)
TokenRun(s, i) ==
    IF i >= 1 /\ i <= Len(s) /\ IsNonSpace(Ch(s, i)) THEN 1 + TokenRun(s, i + 1) ELSE 0

RECURSIVE SplitFrom(_, _)
SplitFrom(s, i) ==
    IF i > Len(s) THEN <<>>
    ELSE IF IsSpace(Ch(s, i)) THEN SplitFrom(s, i + 1)
    ELSE <<SubSeq(s, i, i + TokenRun(s, i) - 1)>>
         \o SplitFrom(s, i + TokenRun(s, i))

Split(s) == SplitFrom(s, 1)

Range(seq) == {seq[i] : i \in 1..Len(seq)}

\* set(s.split())
TokenSet(s) == Range(Split(s))

\* a < b in the order Python gives strings (code points, shorter prefix first)
RECURSIVE StrLess(_, _)
StrLess(a, b) ==
    IF b = "" THEN FALSE
    ELSE IF a = "" THEN TRUE
    ELSE IF Head(a) = Head(b) THEN StrLess(Tail(a), Tail(b))
    ELSE Ord[Head(a)] < Ord[Head(b)]

\* the first token of sorted(S)
MinStr(S) == CHOOSE x \in S : \A y \in S \ {x} : StrLess(x, y)

\* " ".join(<<m>> \o the tokens of rest)
JoinTokens(m, rest) == IF rest = "" THEN m ELSE m \o " " \o rest

\* " ".join(sorted(S)) for a set S of tokens
RECURSIVE JoinSorted(_)
JoinFirst(m, S) == JoinTokens(m, JoinSorted(S \ {m}))

JoinSorted(S) == IF S = {} THEN "" ELSE JoinFirst(MinStr(S), S)

\* one row of the longest-common-subsequence table: acc holds row[0..j-1]
RECURSIVE LcsRow(_, _, _, _)
LcsRow(prev, c, b, acc) ==
    IF Len(acc) = Len(b) + 1 THEN acc
    ELSE LcsRow(prev, c, b,
                Append(acc, IF Ch(b, Len(acc)) = c THEN prev[Len(acc)] + 1
                            ELSE Max2(prev[Len(acc) + 1], acc[Len(acc)])))

RECURSIVE LcsRows(_, _, _, _)
LcsNext(a, b, i, row) ==
    IF Len(row) = Len(b) + 1 THEN LcsRows(a, b, i + 1, row) ELSE 0

LcsRows(a, b, i, prev) ==
    IF i > Len(a) THEN prev[Len(b) + 1]
    ELSE LcsNext(a, b, i, LcsRow(prev, Ch(a, i), b, <<0>>))

LcsLen(a, b) == LcsRows(a, b, 1, [j \in 1..(Len(b) + 1) |-> 0])

\* Indel distance: insertions and deletions turning a into b
IndelDistance(a, b) == Len(a) + Len(b) - 2 * LcsLen(a, b)

\* _norm_distance: 100 - 100 * dist / lensum, on the SimUnit scale, rounded up
NormDistance(dist, lensum) ==
    IF lensum > 0 THEN 100 * SimUnit - ((100 * SimUnit * dist) \div lensum)
    ELSE 100 * SimUnit

\* the three ratios of token_set_ratio from the distance of the two joined
\* differences and the lengths; sep is (sect_len != 0)
RatioOfLengths(dist, ab_len, ba_len, sect_len, sep) ==
    IF sect_len = 0 THEN NormDistance(dist, ab_len + ba_len)
    ELSE Max2(NormDistance(dist, (sect_len + sep + ab_len) + (sect_len + sep + ba_len)),
              Max2(NormDistance(sep + ab_len, sect_len + (sect_len + sep + ab_len)),
                   NormDistance(sep + ba_len, sect_len + (sect_len + sep + ba_len))))

RatioOfJoined(diff_ab_joined, diff_ba_joined, sect_len) ==
    RatioOfLengths(IndelDistance(diff_ab_joined, diff_ba_joined),
                   Len(diff_ab_joined), Len(diff_ba_joined),
                   sect_len, IF sect_len # 0 THEN 1 ELSE 0)

RatioOfTokens(tokens_a, tokens_b) ==
    IF tokens_a = {} \/ tokens_b = {} THEN 0
    ELSE IF /\ tokens_a \cap tokens_b # {}
            /\ (tokens_a \ tokens_b = {} \/ tokens_b \ tokens_a = {})
         THEN 100 * SimUnit
    ELSE RatioOfJoined(JoinSorted(tokens_a \ tokens_b),
                       JoinSorted(tokens_b \ tokens_a),
                       Len(JoinSorted(tokens_a \cap tokens_b)))

token_set_ratio(s1, s2) == RatioOfTokens(TokenSet(s1), TokenSet(s2))

similar(a, b) == token_set_ratio(a, b)

-----------------------------------------------------------------------------
(* Dicts and listings.                                                      *)
(*                                                                          *)
(* A Product is a record [title, price, rating, review_count, url, source,  *)
(* category, attrs]; price, rating, review_count and category are optional  *)
(* (None or Some(v)).  Prices are whole rupees; rating is kept in tenths    *)
(* (43 is 4.3).  attrs and filters are dicts: brand, maker, color and       *)
(* material hold lists of strings, every other key a string.  constraints   *)
(* is a dict whose budget and category entries are optional values, whose   *)
(* filters entry is a dict and whose keywords entry is a list.              *)

\* 1.0 in fixed point
Unit == 1000000

\* d.get(key): None when the key is missing
Get(d, key) == IF key \in DOMAIN d THEN Some(d[key]) ELSE None

\* d.get(key) for an entry that itself holds an optional value
GetOpt(d, key) == IF key \in DOMAIN d THEN d[key] ELSE None

\* truthiness of an optional number: present and non-zero
TruthyNum(o) == o # None /\ Val(o) # 0

\* truthiness of an optional string or list: present and non-empty
TruthyLen(o) == o # None /\ Len(Val(o)) > 0

\* str.strip() restricted to the alphabet's whitespace
RECURSIVE Strip(_)
Strip(s) ==
    IF s = "" THEN ""
    ELSE IF IsSpace(Head(s)) THEN Strip(Tail(s))
    ELSE IF IsSpace(Ch(s, Len(s))) THEN Strip(SubSeq(s, 1, Len(s) - 1))
    ELSE s

_normalize_str(x) == IF x = None THEN "" ELSE lower(Strip(Val(x)))

NormSet(arr) == {_normalize_str(Some(arr[i])) : i \in 1..Len(arr)}

_any_overlap(arr1, arr2) ==
    IF Len(arr1) = 0 \/ Len(arr2) = 0 THEN FALSE
    ELSE NormSet(arr1) \cap NormSet(arr2) # {}

\* value of a digit string as a base-10 integer
RECURSIVE DigitsVal(_)
DigitsVal(s) ==
    IF s = "" THEN 0
    ELSE 10 * DigitsVal(SubSeq(s, 1, Len(s) - 1))
         + (Ord[Ch(s, Len(s))] - Ord["0"])

\* ---- float(s) and the comparison abs(got - want) <= 0.5 ----
\* A float is held exactly: [kind |-> "num", neg, int, nano] is the decimal
\* int + nano / 10^9 with its sign, [kind |-> "inf", neg] and [kind |-> "nan"]
\* are the special values.  The literals covered are those below 10^6 in
\* magnitude with at most nine decimals and an exponent of at most two
\* digits; on them the comparison of the two doubles is decided exactly.
Nano == 1000000000

RECURSIVE Pow10(_)
Pow10(n) == IF n = 0 THEN 1 ELSE 10 * Pow10(n - 1)

RECURSIVE StripLeadingZeros(_)
StripLeadingZeros(d) ==
    IF d # "" /\ Head(d) = "0" THEN StripLeadingZeros(Tail(d)) ELSE d

RECURSIVE StripTrailingZeros(_)
StripTrailingZeros(d) ==
    IF d # "" /\ Ch(d, Len(d)) = "0"
    THEN StripTrailingZeros(SubSeq(d, 1, Len(d) - 1))
    ELSE d

\* the exponent part that starts at i: None when it is malformed, else the
\* sign and the digits; an absent exponent is the digits ""
ExponentAt(u, i, j) ==
    IF i > Len(u) THEN Some([eneg |-> FALSE, edigits |-> ""])
    ELSE IF Ch(u, i) \notin {"e", "E"} THEN None
    ELSE IF DigitRun(u, j) >= 1 /\ j + DigitRun(u, j) - 1 = Len(u)
         THEN Some([eneg |-> j = i + 2, edigits |-> SubSeq(u, j, Len(u))])
    ELSE None

\* the decimal literal u = digits [. digits] [e [-] digits] with at least
\* one digit before the exponent; n1 and n2 are the lengths of the two
\* digit runs and i is the place after them
LiteralFrom(u, n1, n2, i) ==
    IF n1 + n2 = 0 THEN None
    ELSE IF ExponentAt(u, i, IF LitAt(u, i + 1, "-") THEN i + 2 ELSE i + 1) = None
         THEN None
    ELSE Some([ip |-> SubSeq(u, 1, n1),
               fp |-> SubSeq(u, i - n2, i - 1),
               ex |-> Val(ExponentAt(u, i, IF LitAt(u, i + 1, "-")
                                           THEN i + 2 ELSE i + 1))])

DecimalLiteral(u) ==
    IF LitAt(u, DigitRun(u, 1) + 1, ".")
    THEN LiteralFrom(u, DigitRun(u, 1), DigitRun(u, DigitRun(u, 1) + 2),
                     DigitRun(u, 1) + 2 + DigitRun(u, DigitRun(u, 1) + 2))
    ELSE LiteralFrom(u, DigitRun(u, 1), 0, DigitRun(u, 1) + 1)

\* the exponent of a literal as a signed integer (at most two digits)
ExponentOf(ex) ==
    CASE Len(StripLeadingZeros(ex.edigits)) <= 2 ->
            IF ex.eneg THEN -DigitsVal(StripLeadingZeros(ex.edigits))
            ELSE DigitsVal(StripLeadingZeros(ex.edigits))

\* the number d * 10^scale, d a digit string without leading or trailing
\* zero
Scaled(neg, d, scale) ==
    CASE d = "" ->
            [kind |-> "num", neg |-> neg, int |-> 0, nano |-> 0]
      [] d # "" /\ scale >= 0 /\ Len(d) + scale <= 6 ->
            [kind |-> "num", neg |-> neg,
             int |-> DigitsVal(d) * Pow10(scale), nano |-> 0]
      [] d # "" /\ scale < 0 /\ -scale <= 9 /\ -scale >= Len(d) ->
            [kind |-> "num", neg |-> neg, int |-> 0,
             nano |-> DigitsVal(d) * Pow10(9 + scale)]
      [] d # "" /\ scale < 0 /\ -scale <= 9 /\ -scale < Len(d)
              /\ Len(d) + scale <= 6 ->
            [kind |-> "num", neg |-> neg,
             int |-> DigitsVal(SubSeq(d, 1, Len(d) + scale)),
             nano |-> DigitsVal(SubSeq(d, Len(d) + scale + 1, Len(d)))
                         * Pow10(9 + scale)]

\* the value of a literal: its digits without the zeros at either end, the
\* scale moved by the zeros dropped at the right
LiteralValue(neg, lit, d0) ==
    Scaled(neg, StripTrailingZeros(d0),
           ExponentOf(lit.ex) - Len(lit.fp)
               + (Len(d0) - Len(StripTrailingZeros(d0))))

\* float(t) for a stripped text t whose sign has been read
FloatBody(neg, u) ==
    IF lower(u) \in {"inf", "infinity"} THEN Some([kind |-> "inf", neg |-> neg])
    ELSE IF lower(u) = "nan" THEN Some([kind |-> "nan"])
    ELSE IF DecimalLiteral(u) = None THEN None
    ELSE Some(LiteralValue(neg, Val(DecimalLiteral(u)),
                           StripLeadingZeros(Val(DecimalLiteral(u)).ip
                                                \o Val(DecimalLiteral(u)).fp)))

FloatOfStripped(t) ==
    IF t # "" /\ Head(t) = "-" THEN FloatBody(TRUE, Tail(t)) ELSE FloatBody(FALSE, t)

\* float(s0): None stands for the ValueError float() raises
float(s0) == FloatOfStripped(Strip(s0))

\* floor(log2(i)) for i >= 1
RECURSIVE Log2Floor(_)
Log2Floor(i) == IF i < 2 THEN 0 ELSE 1 + Log2Floor(i \div 2)

\* number of doublings that take the fraction f > 0 to 1 or more
RECURSIVE DoublingsToOne(_)
DoublingsToOne(f) == IF f >= Nano THEN 0 ELSE 1 + DoublingsToOne(2 * f)

\* the double nearest to x = int + nano / 10^9 > 0 is a multiple of
\* 2^-UlpExp(x): 52 - floor(log2(x))
UlpExp(int, nano) ==
    IF int >= 1 THEN 52 - Log2Floor(int) ELSE 52 + DoublingsToOne(nano)

\* (f * 2^n) mod 10^9
RECURSIVE DoubleMod(_, _)
DoubleMod(f, n) == IF n = 0 THEN f ELSE DoubleMod((2 * f) % Nano, n - 1)

\* float(x) - x in units of 2^-UlpExp(x) / 10^9, from the remainder r of
\* x * 2^UlpExp(x): round to nearest
RoundErr(r) == IF 2 * r < Nano THEN -r ELSE Nano - r

FloatErr(int, nano) == RoundErr(DoubleMod(nano, UlpExp(int, nano)))

\* float(x) - float(y) <= 0.5 for decimals x = y + 0.5, y >= 0.  Below 0.5
\* the difference rounds to 0.5 or less.  From 0.5 on the subtraction is
\* exact and gives 0.5 + (float(x) - x) - (float(y) - y), the two errors
\* brought to the unit of y.
TieWithinHalf(xi, xn, yi, yn) ==
    IF yi = 0 /\ 2 * yn < Nano THEN TRUE
    ELSE IF UlpExp(yi, yn) = UlpExp(xi, xn)
         THEN FloatErr(xi, xn) - FloatErr(yi, yn) <= 0
    ELSE 2 * FloatErr(xi, xn) - FloatErr(yi, yn) <= 0

\* the exact distance int + nano / 10^9 of two decimals against 0.5; at
\* exactly 0.5 the doubles decide
DistanceWithinHalf(int, nano, tie) ==
    IF int >= 1 THEN FALSE
    ELSE IF 2 * nano # Nano THEN 2 * nano < Nano
    ELSE tie

\* |x - y| for x >= y >= 0
DiffWithinHalf(xi, xn, yi, yn) ==
    IF xn >= yn
    THEN DistanceWithinHalf(xi - yi, xn - yn, TieWithinHalf(xi, xn, yi, yn))
    ELSE DistanceWithinHalf(xi - yi - 1, xn - yn + Nano,
                            TieWithinHalf(xi, xn, yi, yn))

\* x + y for x, y >= 0: a sum of exactly 0.5 rounds to 0.5 or less
SumWithinHalf(xi, xn, yi, yn) ==
    IF xn + yn >= Nano
    THEN DistanceWithinHalf(xi + yi + 1, xn + yn - Nano, TRUE)
    ELSE DistanceWithinHalf(xi + yi, xn + yn, TRUE)

\* abs(got - want) <= 0.5 on two floats; inf and nan make it False
AbsDiffWithinHalf(g, w) ==
    IF g.kind # "num" \/ w.kind # "num" THEN FALSE
    ELSE IF g.neg # w.neg THEN SumWithinHalf(g.int, g.nano, w.int, w.nano)
    ELSE IF g.int > w.int \/ (g.int = w.int /\ g.nano >= w.nano)
         THEN DiffWithinHalf(g.int, g.nano, w.int, w.nano)
    ELSE DiffWithinHalf(w.int, w.nano, g.int, g.nano)

Abs(x) == IF x < 0 THEN -x ELSE x

-----------------------------------------------------------------------------
(* attribute_match_score: points are counted in tenths, the result is the   *)
(* ratio score / max_pts in fixed point.                                    *)

\* points of the brand block (credit, possible)
\* attrs.get("brand") or attrs.get("maker") or []
ProdBrands(pattrs) ==
    IF TruthyLen(Get(pattrs, "brand")) THEN pattrs["brand"]
    ELSE IF TruthyLen(Get(pattrs, "maker")) THEN pattrs["maker"]
    ELSE <<>>

\* any(b.lower() in name for b in brands)
AnyBrandIn(name, brands) == \E i \in 1..Len(brands) : Contains(name, lower(brands[i]))

BrandPoints(p, filters) ==
    IF "brand" \notin DOMAIN filters THEN <<0, 0>>
    ELSE IF _any_overlap(ProdBrands(p.attrs), filters["brand"]) THEN <<10, 10>>
    ELSE IF AnyBrandIn(lower(p.title), filters["brand"]) THEN <<8, 10>>
    ELSE <<0, 10>>

\* points of a list-valued block without fallback (color, material)
ListPoints(p, filters, key, pts) ==
    IF key \notin DOMAIN filters THEN <<0, 0>>
    ELSE IF key \in DOMAIN p.attrs /\ _any_overlap(p.attrs[key], filters[key])
         THEN <<pts, pts>>
    ELSE <<0, pts>>

\* points of one footwear size key
WantGotPoints(want, got, pts) ==
    IF want = "" THEN <<0, 0>>
    ELSE IF got # "" /\ want = got THEN <<pts, pts>>
    ELSE <<0, pts>>

SizePoints(p, filters, key, pts) ==
    WantGotPoints(_normalize_str(Get(filters, key)), _normalize_str(Get(p.attrs, key)), pts)

\* points of the capacity block: numeric match within 0.5 litre
\* want and got are the results of float(): None where float() raises
WithinHalfLitre(want, got) ==
    IF want = None \/ got = None THEN <<0, 6>>
    ELSE IF AbsDiffWithinHalf(Val(got), Val(want)) THEN <<6, 6>>
    ELSE <<0, 6>>

CapacityPoints(p, filters) ==
    IF ~TruthyLen(Get(filters, "capacity_l")) THEN <<0, 0>>
    ELSE IF "capacity_l" \notin DOMAIN p.attrs THEN <<0, 6>>
    ELSE IF float(filters["capacity_l"]) = None THEN <<0, 6>>
    ELSE WithinHalfLitre(float(filters["capacity_l"]),
                         float(p.attrs["capacity_l"]))

\* points of an electronics key compared as normalized strings
EqPoints(p, filters, key, pts) ==
    IF ~TruthyLen(Get(filters, key)) THEN <<0, 0>>
    ELSE IF _normalize_str(Get(filters, key)) = _normalize_str(Get(p.attrs, key))
         THEN <<pts, pts>>
    ELSE <<0, pts>>

AttrPoints(p, filters) ==
    <<BrandPoints(p, filters),
      ListPoints(p, filters, "color", 5),
      ListPoints(p, filters, "material", 6),
      SizePoints(p, filters, "size_uk", 5),
      SizePoints(p, filters, "size_us", 5),
      SizePoints(p, filters, "size_eu", 5),
      CapacityPoints(p, filters),
      EqPoints(p, filters, "ram_gb", 6),
      EqPoints(p, filters, "storage_tb", 6),
      EqPoints(p, filters, "storage_gb", 6),
      EqPoints(p, filters, "battery_mah", 6)>>

RECURSIVE SumAt(_, _, _)
SumAt(pairs, c, i) == IF i > Len(pairs) THEN 0 ELSE pairs[i][c] + SumAt(pairs, c, i + 1)

\* a normalisation that gives full marks when nothing was asked
NormalizePoints_full_when_none(pts, max_pts) ==
    IF max_pts <= 0 THEN Unit
    ELSE Max2(0, Min2(Unit, (pts * Unit) \div max_pts))

\* the final normalisation: 0.0 when nothing was asked, else the clamped ratio
NormalizePoints(pts, max_pts) ==
    IF max_pts <= 0 THEN 0
    ELSE Max2(0, Min2(Unit, (pts * Unit) \div max_pts))

\* score and max_pts of the blocks, normalised
PointsRatio(pairs) == NormalizePoints(SumAt(pairs, 1, 1), SumAt(pairs, 2, 1))

\* constraints.get("filters") or {}
FiltersOf(cons) == IF "filters" \in DOMAIN cons THEN cons["filters"] ELSE <<>>

attribute_match_score(p, cons) ==
    IF DOMAIN cons = {} THEN 0
    ELSE IF DOMAIN FiltersOf(cons) = {} THEN 0
    ELSE PointsRatio(AttrPoints(p, FiltersOf(cons)))

-----------------------------------------------------------------------------
(* score_product *)

\* round(1000000 * math.tanh(n / 600.0)) for n = 0, 1, ..., 4561: entry n + 1
\* is the value at n, and from 4561 on the value is 1.0 to six places
TanhTable ==
    <<0, 1667, 3333, 5000, 6667, 8333, 10000, 11666, 13333, 14999,
      16665, 18331, 19997, 21663, 23329, 24995, 26660, 28326, 29991, 31656,
      33321, 34986, 36650, 38315, 39979, 41643, 43306, 44970, 46633, 48296,
      49958, 51621, 53283, 54945, 56606, 58267, 59928, 61589, 63249, 64909,
      66568, 68227, 69886, 71544, 73202, 74860, 76517, 78174, 79830, 81486,
      83141, 84796, 86450, 88104, 89758, 91411, 93063, 94715, 96367, 98018,
      99668, 101318, 102967, 104616, 106264, 107912, 109558, 111205, 112851, 114496,
      116140, 117784, 119427, 121070, 122712, 124353, 125994, 127633, 129273, 130911,
      132549, 134186, 135822, 137458, 139092, 140726, 142360, 143992, 145624, 147255,
      148885, 150514, 152143, 153771, 155397, 157023, 158649, 160273, 161896, 163519,
      165140, 166761, 168381, 170000, 171618, 173235, 174851, 176467, 178081, 179694,
      181307, 182918, 184528, 186138, 187746, 189354, 190960, 192565, 194170, 195773,
      197375, 198977, 200577, 202176, 203774, 205371, 206966, 208561, 210155, 211747,
      213339, 214929, 216518, 218106, 219693, 221278, 222863, 224446, 226028, 227609,
      229189, 230768, 232345, 233921, 235496, 237069, 238642, 240213, 241783, 243351,
      244919, 246485, 248049, 249613, 251175, 252736, 254296, 255854, 257411, 258966,
      260520, 262073, 263625, 265175, 266724, 268271, 269817, 271362, 272905, 274447,
      275987, 277526, 279064, 280600, 282135, 283668, 285200, 286730, 288259, 289787,
      291313, 292837, 294360, 295882, 297402, 298920, 300437, 301953, 303467, 304979,
      306490, 307999, 309507, 311013, 312518, 314021, 315522, 317022, 318521, 320018,
      321513, 323006, 324498, 325989, 327477, 328965, 330450, 331934, 333416, 334897,
      336376, 337853, 339328, 340802, 342275, 343745, 345214, 346681, 348147, 349611,
      351073, 352533, 353992, 355449, 356904, 358357, 359809, 361259, 362707, 364154,
      365599, 367042, 368483, 369923, 371360, 372796, 374230, 375663, 377093, 378522,
      379949, 381374, 382797, 384219, 385639, 387057, 388473, 389887, 391299, 392710,
      394119, 395525, 396930, 398334, 399735, 401134, 402532, 403928, 405321, 406713,
      408103, 409491, 410878, 412262, 413644, 415025, 416404, 417780, 419155, 420528,
      421899, 423268, 424635, 426000, 427364, 428725, 430084, 431442, 432797, 434151,
      435502, 436852, 438199, 439545, 440889, 442230, 443570, 444908, 446244, 447577,
      448909, 450239, 451567, 452893, 454216, 455538, 456858, 458176, 459492, 460805,
      462117, 463427, 464735, 466040, 467344, 468646, 469945, 471243, 472538, 473832,
      475123, 476413, 477700, 478985, 480269, 481550, 482829, 484106, 485381, 486654,
      487925, 489194, 490461, 491725, 492988, 494249, 495507, 496763, 498018, 499270,
      500520, 501768, 503014, 504258, 505500, 506740, 507977, 509213, 510446, 511678,
      512907, 514134, 515359, 516582, 517803, 519022, 520238, 521453, 522665, 523876,
      525084, 526290, 527494, 528696, 529896, 531093, 532289, 533482, 534673, 535863,
      537050, 538234, 539417, 540598, 541776, 542953, 544127, 545299, 546469, 547637,
      548803, 549967, 551128, 552287, 553445, 554600, 555753, 556904, 558052, 559199,
      560343, 561485, 562626, 563764, 564900, 566033, 567165, 568294, 569422, 570547,
      571670, 572791, 573910, 575026, 576141, 577253, 578363, 579472, 580577, 581681,
      582783, 583882, 584980, 586075, 587168, 588259, 589348, 590435, 591519, 592602,
      593682, 594760, 595836, 596910, 597982, 599052, 600119, 601184, 602248, 603309,
      604368, 605425, 606479, 607532, 608582, 609631, 610677, 611721, 612763, 613803,
      614840, 615876, 616909, 617941, 618970, 619997, 621022, 622045, 623065, 624084,
      625100, 626115, 627127, 628137, 629145, 630151, 631155, 632157, 633156, 634154,
      635149, 636142, 637133, 638122, 639109, 640094, 641077, 642058, 643036, 644013,
      644987, 645959, 646929, 647898, 648864, 649827, 650789, 651749, 652707, 653662,
      654616, 655567, 656517, 657464, 658409, 659352, 660293, 661232, 662169, 663104,
      664037, 664967, 665896, 666823, 667747, 668670, 669590, 670509, 671425, 672339,
      673252, 674162, 675070, 675976, 676880, 677782, 678682, 679580, 680476, 681370,
      682262, 683152, 684039, 684925, 685809, 686691, 687571, 688448, 689324, 690198,
      691069, 691939, 692807, 693673, 694536, 695398, 696258, 697115, 697971, 698825,
      699677, 700526, 701374, 702220, 703064, 703906, 704745, 705583, 706419, 707253,
      708085, 708915, 709743, 710570, 711394, 712216, 713036, 713855, 714671, 715485,
      716298, 717108, 717917, 718724, 719529, 720331, 721132, 721931, 722728, 723523,
      724317, 725108, 725897, 726685, 727471, 728254, 729036, 729816, 730594, 731370,
      732144, 732917, 733687, 734456, 735222, 735987, 736750, 737511, 738270, 739028,
      739783, 740537, 741288, 742038, 742786, 743533, 744277, 745019, 745760, 746499,
      747236, 747971, 748704, 749436, 750165, 750893, 751619, 752344, 753066, 753786,
      754505, 755222, 755937, 756651, 757362, 758072, 758780, 759486, 760191, 760893,
      761594, 762293, 762991, 763686, 764380, 765072, 765762, 766450, 767137, 767822,
      768505, 769187, 769867, 770545, 771221, 771895, 772568, 773239, 773908, 774576,
      775242, 775906, 776568, 777229, 777888, 778545, 779201, 779855, 780507, 781158,
      781806, 782453, 783099, 783743, 784385, 785025, 785664, 786301, 786936, 787570,
      788202, 788832, 789461, 790088, 790714, 791338, 791960, 792580, 793199, 793816,
      794432, 795046, 795658, 796269, 796878, 797486, 798092, 798696, 799298, 799900,
      800499, 801097, 801693, 802288, 802881, 803472, 804062, 804651, 805238, 805823,
      806406, 806988, 807569, 808148, 808725, 809301, 809875, 810448, 811019, 811589,
      812157, 812724, 813289, 813852, 814414, 814975, 815533, 816091, 816647, 817201,
      817754, 818305, 818855, 819404, 819951, 820496, 821040, 821582, 822123, 822663,
      823201, 823737, 824272, 824806, 825338, 825868, 826398, 826925, 827452, 827976,
      828500, 829022, 829542, 830061, 830579, 831095, 831610, 832123, 832635, 833146,
      833655, 834162, 834669, 835173, 835677, 836179, 836679, 837179, 837677, 838173,
      838668, 839162, 839654, 840145, 840635, 841123, 841610, 842095, 842579, 843062,
      843543, 844024, 844502, 844980, 845456, 845930, 846404, 846876, 847346, 847816,
      848284, 848750, 849216, 849680, 850143, 850604, 851064, 851523, 851980, 852437,
      852892, 853345, 853798, 854249, 854699, 855147, 855594, 856040, 856485, 856928,
      857370, 857811, 858251, 858689, 859127, 859562, 859997, 860430, 860863, 861293,
      861723, 862152, 862579, 863005, 863430, 863853, 864275, 864697, 865116, 865535,
      865953, 866369, 866784, 867198, 867610, 868022, 868432, 868841, 869249, 869656,
      870062, 870466, 870869, 871271, 871672, 872072, 872471, 872868, 873264, 873659,
      874053, 874446, 874838, 875228, 875618, 876006, 876393, 876779, 877164, 877548,
      877930, 878312, 878692, 879071, 879450, 879827, 880203, 880578, 880951, 881324,
      881695, 882066, 882435, 882804, 883171, 883537, 883902, 884266, 884629, 884991,
      885352, 885711, 886070, 886428, 886784, 887140, 887494, 887848, 888200, 888551,
      888901, 889251, 889599, 889946, 890292, 890637, 890981, 891325, 891667, 892008,
      892348, 892687, 893025, 893362, 893698, 894033, 894367, 894700, 895032, 895363,
      895693, 896022, 896350, 896677, 897003, 897328, 897653, 897976, 898298, 898619,
      898940, 899259, 899577, 899895, 900211, 900527, 900842, 901155, 901468, 901780,
      902091, 902401, 902710, 903018, 903325, 903631, 903936, 904241, 904544, 904847,
      905148, 905449, 905749, 906048, 906346, 906643, 906939, 907234, 907529, 907822,
      908115, 908407, 908698, 908988, 909277, 909565, 909852, 910139, 910425, 910709,
      910993, 911276, 911559, 911840, 912120, 912400, 912679, 912957, 913234, 913510,
      913785, 914060, 914334, 914607, 914879, 915150, 915420, 915690, 915959, 916227,
      916494, 916760, 917026, 917290, 917554, 917817, 918080, 918341, 918602, 918862,
      919121, 919379, 919637, 919893, 920149, 920404, 920659, 920912, 921165, 921417,
      921669, 921919, 922169, 922418, 922666, 922913, 923160, 923406, 923651, 923896,
      924139, 924382, 924624, 924866, 925106, 925346, 925585, 925824, 926062, 926299,
      926535, 926770, 927005, 927239, 927473, 927705, 927937, 928168, 928399, 928629,
      928858, 929086, 929314, 929541, 929767, 929992, 930217, 930441, 930665, 930888,
      931110, 931331, 931552, 931772, 931991, 932210, 932428, 932645, 932862, 933077,
      933293, 933507, 933721, 933935, 934147, 934359, 934570, 934781, 934991, 935200,
      935409, 935617, 935824, 936031, 936237, 936443, 936648, 936852, 937055, 937258,
      937460, 937662, 937863, 938063, 938263, 938462, 938661, 938859, 939056, 939253,
      939449, 939644, 939839, 940033, 940227, 940420, 940612, 940804, 940995, 941186,
      941376, 941565, 941754, 941942, 942130, 942317, 942503, 942689, 942874, 943059,
      943243, 943426, 943609, 943792, 943974, 944155, 944336, 944516, 944695, 944874,
      945053, 945230, 945408, 945584, 945761, 945936, 946111, 946286, 946460, 946633,
      946806, 946978, 947150, 947321, 947492, 947662, 947832, 948001, 948169, 948338,
      948505, 948672, 948838, 949004, 949170, 949335, 949499, 949663, 949826, 949989,
      950151, 950313, 950474, 950635, 950795, 950955, 951114, 951273, 951431, 951589,
      951746, 951903, 952059, 952215, 952370, 952525, 952679, 952833, 952986, 953139,
      953291, 953443, 953594, 953745, 953895, 954045, 954195, 954344, 954492, 954640,
      954788, 954935, 955081, 955227, 955373, 955518, 955663, 955807, 955951, 956095,
      956237, 956380, 956522, 956663, 956805, 956945, 957085, 957225, 957364, 957503,
      957642, 957780, 957917, 958054, 958191, 958327, 958463, 958598, 958733, 958868,
      959002, 959136, 959269, 959402, 959534, 959666, 959797, 959929, 960059, 960190,
      960319, 960449, 960578, 960706, 960835, 960962, 961090, 961217, 961343, 961470,
      961595, 961721, 961846, 961970, 962094, 962218, 962341, 962464, 962587, 962709,
      962831, 962952, 963073, 963194, 963314, 963434, 963554, 963673, 963791, 963910,
      964028, 964145, 964262, 964379, 964496, 964612, 964727, 964843, 964958, 965072,
      965186, 965300, 965414, 965527, 965640, 965752, 965864, 965976, 966087, 966198,
      966308, 966419, 966529, 966638, 966747, 966856, 966965, 967073, 967180, 967288,
      967395, 967502, 967608, 967714, 967820, 967925, 968030, 968135, 968239, 968343,
      968447, 968550, 968653, 968756, 968858, 968960, 969062, 969164, 969265, 969365,
      969466, 969566, 969666, 969765, 969864, 969963, 970061, 970159, 970257, 970355,
      970452, 970549, 970645, 970742, 970838, 970933, 971029, 971124, 971218, 971313,
      971407, 971501, 971594, 971687, 971780, 971873, 971965, 972057, 972149, 972240,
      972331, 972422, 972513, 972603, 972693, 972782, 972872, 972961, 973049, 973138,
      973226, 973314, 973402, 973489, 973576, 973663, 973749, 973836, 973922, 974007,
      974093, 974178, 974262, 974347, 974431, 974515, 974599, 974682, 974766, 974849,
      974931, 975014, 975096, 975178, 975259, 975340, 975422, 975502, 975583, 975663,
      975743, 975823, 975902, 975982, 976061, 976139, 976218, 976296, 976374, 976452,
      976529, 976606, 976683, 976760, 976836, 976912, 976988, 977064, 977140, 977215,
      977290, 977364, 977439, 977513, 977587, 977661, 977734, 977808, 977881, 977954,
      978026, 978098, 978171, 978242, 978314, 978385, 978457, 978527, 978598, 978669,
      978739, 978809, 978879, 978948, 979017, 979087, 979155, 979224, 979293, 979361,
      979429, 979496, 979564, 979631, 979698, 979765, 979832, 979898, 979965, 980031,
      980096, 980162, 980227, 980292, 980357, 980422, 980487, 980551, 980615, 980679,
      980743, 980806, 980869, 980932, 980995, 981058, 981120, 981183, 981245, 981306,
      981368, 981430, 981491, 981552, 981613, 981673, 981734, 981794, 981854, 981914,
      981973, 982033, 982092, 982151, 982210, 982269, 982327, 982385, 982444, 982502,
      982559, 982617, 982674, 982731, 982788, 982845, 982902, 982958, 983014, 983070,
      983126, 983182, 983237, 983293, 983348, 983403, 983458, 983512, 983567, 983621,
      983675, 983729, 983782, 983836, 983889, 983943, 983996, 984048, 984101, 984154,
      984206, 984258, 984310, 984362, 984413, 984465, 984516, 984567, 984618, 984669,
      984720, 984770, 984820, 984871, 984921, 984970, 985020, 985069, 985119, 985168,
      985217, 985266, 985314, 985363, 985411, 985459, 985508, 985555, 985603, 985651,
      985698, 985745, 985792, 985839, 985886, 985933, 985979, 986026, 986072, 986118,
      986164, 986209, 986255, 986300, 986346, 986391, 986436, 986481, 986525, 986570,
      986614, 986659, 986703, 986747, 986790, 986834, 986878, 986921, 986964, 987007,
      987050, 987093, 987136, 987178, 987221, 987263, 987305, 987347, 987389, 987431,
      987472, 987514, 987555, 987596, 987637, 987678, 987719, 987759, 987800, 987840,
      987880, 987920, 987960, 988000, 988040, 988080, 988119, 988158, 988197, 988236,
      988275, 988314, 988353, 988391, 988430, 988468, 988506, 988544, 988582, 988620,
      988658, 988695, 988733, 988770, 988807, 988844, 988881, 988918, 988954, 988991,
      989027, 989064, 989100, 989136, 989172, 989208, 989244, 989279, 989315, 989350,
      989385, 989420, 989455, 989490, 989525, 989560, 989594, 989629, 989663, 989697,
      989731, 989765, 989799, 989833, 989867, 989900, 989934, 989967, 990000, 990033,
      990066, 990099, 990132, 990165, 990197, 990230, 990262, 990294, 990327, 990359,
      990390, 990422, 990454, 990486, 990517, 990549, 990580, 990611, 990642, 990673,
      990704, 990735, 990766, 990796, 990827, 990857, 990887, 990917, 990948, 990978,
      991007, 991037, 991067, 991097, 991126, 991155, 991185, 991214, 991243, 991272,
      991301, 991330, 991359, 991387, 991416, 991444, 991472, 991501, 991529, 991557,
      991585, 991613, 991641, 991668, 991696, 991723, 991751, 991778, 991805, 991833,
      991860, 991887, 991914, 991940, 991967, 991994, 992020, 992047, 992073, 992099,
      992126, 992152, 992178, 992204, 992229, 992255, 992281, 992306, 992332, 992357,
      992383, 992408, 992433, 992458, 992483, 992508, 992533, 992558, 992582, 992607,
      992632, 992656, 992680, 992705, 992729, 992753, 992777, 992801, 992825, 992849,
      992872, 992896, 992919, 992943, 992966, 992990, 993013, 993036, 993059, 993082,
      993105, 993128, 993151, 993173, 993196, 993219, 993241, 993264, 993286, 993308,
      993330, 993353, 993375, 993397, 993418, 993440, 993462, 993484, 993505, 993527,
      993548, 993570, 993591, 993612, 993634, 993655, 993676, 993697, 993718, 993738,
      993759, 993780, 993801, 993821, 993842, 993862, 993882, 993903, 993923, 993943,
      993963, 993983, 994003, 994023, 994043, 994063, 994082, 994102, 994122, 994141,
      994161, 994180, 994199, 994218, 994238, 994257, 994276, 994295, 994314, 994333,
      994351, 994370, 994389, 994407, 994426, 994445, 994463, 994481, 994500, 994518,
      994536, 994554, 994572, 994590, 994608, 994626, 994644, 994662, 994679, 994697,
      994715, 994732, 994750, 994767, 994785, 994802, 994819, 994836, 994853, 994871,
      994888, 994905, 994921, 994938, 994955, 994972, 994989, 995005, 995022, 995038,
      995055, 995071, 995088, 995104, 995120, 995136, 995152, 995169, 995185, 995201,
      995216, 995232, 995248, 995264, 995280, 995295, 995311, 995327, 995342, 995358,
      995373, 995388, 995404, 995419, 995434, 995449, 995464, 995479, 995494, 995509,
      995524, 995539, 995554, 995569, 995583, 995598, 995613, 995627, 995642, 995656,
      995671, 995685, 995699, 995714, 995728, 995742, 995756, 995770, 995784, 995798,
      995812, 995826, 995840, 995854, 995868, 995881, 995895, 995909, 995922, 995936,
      995949, 995963, 995976, 995990, 996003, 996016, 996029, 996043, 996056, 996069,
      996082, 996095, 996108, 996121, 996134, 996147, 996159, 996172, 996185, 996197,
      996210, 996223, 996235, 996248, 996260, 996273, 996285, 996297, 996310, 996322,
      996334, 996346, 996358, 996371, 996383, 996395, 996407, 996419, 996430, 996442,
      996454, 996466, 996478, 996489, 996501, 996513, 996524, 996536, 996547, 996559,
      996570, 996582, 996593, 996604, 996615, 996627, 996638, 996649, 996660, 996671,
      996682, 996693, 996704, 996715, 996726, 996737, 996748, 996759, 996770, 996780,
      996791, 996802, 996812, 996823, 996833, 996844, 996854, 996865, 996875, 996886,
      996896, 996906, 996917, 996927, 996937, 996947, 996957, 996968, 996978, 996988,
      996998, 997008, 997018, 997027, 997037, 997047, 997057, 997067, 997077, 997086,
      997096, 997106, 997115, 997125, 997134, 997144, 997153, 997163, 997172, 997182,
      997191, 997200, 997210, 997219, 997228, 997237, 997247, 997256, 997265, 997274,
      997283, 997292, 997301, 997310, 997319, 997328, 997337, 997346, 997354, 997363,
      997372, 997381, 997389, 997398, 997407, 997415, 997424, 997432, 997441, 997449,
      997458, 997466, 997475, 997483, 997492, 997500, 997508, 997517, 997525, 997533,
      997541, 997549, 997558, 997566, 997574, 997582, 997590, 997598, 997606, 997614,
      997622, 997630, 997637, 997645, 997653, 997661, 997669, 997677, 997684, 997692,
      997700, 997707, 997715, 997722, 997730, 997738, 997745, 997753, 997760, 997768,
      997775, 997782, 997790, 997797, 997804, 997812, 997819, 997826, 997833, 997841,
      997848, 997855, 997862, 997869, 997876, 997883, 997890, 997897, 997904, 997911,
      997918, 997925, 997932, 997939, 997946, 997953, 997959, 997966, 997973, 997980,
      997986, 997993, 998000, 998006, 998013, 998020, 998026, 998033, 998039, 998046,
      998052, 998059, 998065, 998072, 998078, 998085, 998091, 998097, 998104, 998110,
      998116, 998122, 998129, 998135, 998141, 998147, 998153, 998160, 998166, 998172,
      998178, 998184, 998190, 998196, 998202, 998208, 998214, 998220, 998226, 998232,
      998238, 998243, 998249, 998255, 998261, 998267, 998272, 998278, 998284, 998290,
      998295, 998301, 998307, 998312, 998318, 998323, 998329, 998335, 998340, 998346,
      998351, 998357, 998362, 998368, 998373, 998378, 998384, 998389, 998395, 998400,
      998405, 998410, 998416, 998421, 998426, 998432, 998437, 998442, 998447, 998452,
      998457, 998463, 998468, 998473, 998478, 998483, 998488, 998493, 998498, 998503,
      998508, 998513, 998518, 998523, 998528, 998533, 998537, 998542, 998547, 998552,
      998557, 998562, 998566, 998571, 998576, 998581, 998585, 998590, 998595, 998599,
      998604, 998609, 998613, 998618, 998623, 998627, 998632, 998636, 998641, 998645,
      998650, 998654, 998659, 998663, 998668, 998672, 998677, 998681, 998685, 998690,
      998694, 998698, 998703, 998707, 998711, 998716, 998720, 998724, 998728, 998733,
      998737, 998741, 998745, 998749, 998754, 998758, 998762, 998766, 998770, 998774,
      998778, 998782, 998786, 998790, 998794, 998798, 998802, 998806, 998810, 998814,
      998818, 998822, 998826, 998830, 998834, 998838, 998842, 998846, 998849, 998853,
      998857, 998861, 998865, 998868, 998872, 998876, 998880, 998883, 998887, 998891,
      998894, 998898, 998902, 998905, 998909, 998913, 998916, 998920, 998924, 998927,
      998931, 998934, 998938, 998941, 998945, 998948, 998952, 998955, 998959, 998962,
      998966, 998969, 998973, 998976, 998979, 998983, 998986, 998990, 998993, 998996,
      999000, 999003, 999006, 999010, 999013, 999016, 999019, 999023, 999026, 999029,
      999032, 999036, 999039, 999042, 999045, 999048, 999052, 999055, 999058, 999061,
      999064, 999067, 999070, 999073, 999076, 999080, 999083, 999086, 999089, 999092,
      999095, 999098, 999101, 999104, 999107, 999110, 999113, 999116, 999119, 999121,
      999124, 999127, 999130, 999133, 999136, 999139, 999142, 999145, 999147, 999150,
      999153, 999156, 999159, 999162, 999164, 999167, 999170, 999173, 999175, 999178,
      999181, 999184, 999186, 999189, 999192, 999194, 999197, 999200, 999202, 999205,
      999208, 999210, 999213, 999216, 999218, 999221, 999223, 999226, 999229, 999231,
      999234, 999236, 999239, 999241, 999244, 999246, 999249, 999251, 999254, 999256,
      999259, 999261, 999264, 999266, 999269, 999271, 999273, 999276, 999278, 999281,
      999283, 999285, 999288, 999290, 999293, 999295, 999297, 999300, 999302, 999304,
      999307, 999309, 999311, 999313, 999316, 999318, 999320, 999323, 999325, 999327,
      999329, 999332, 999334, 999336, 999338, 999340, 999343, 999345, 999347, 999349,
      999351, 999353, 999356, 999358, 999360, 999362, 999364, 999366, 999368, 999370,
      999373, 999375, 999377, 999379, 999381, 999383, 999385, 999387, 999389, 999391,
      999393, 999395, 999397, 999399, 999401, 999403, 999405, 999407, 999409, 999411,
      999413, 999415, 999417, 999419, 999421, 999423, 999425, 999427, 999428, 999430,
      999432, 999434, 999436, 999438, 999440, 999442, 999443, 999445, 999447, 999449,
      999451, 999453, 999454, 999456, 999458, 999460, 999462, 999464, 999465, 999467,
      999469, 999471, 999472, 999474, 999476, 999478, 999479, 999481, 999483, 999485,
      999486, 999488, 999490, 999491, 999493, 999495, 999496, 999498, 999500, 999501,
      999503, 999505, 999506, 999508, 999510, 999511, 999513, 999515, 999516, 999518,
      999519, 999521, 999523, 999524, 999526, 999527, 999529, 999530, 999532, 999534,
      999535, 999537, 999538, 999540, 999541, 999543, 999544, 999546, 999547, 999549,
      999550, 999552, 999553, 999555, 999556, 999558, 999559, 999561, 999562, 999564,
      999565, 999567, 999568, 999569, 999571, 999572, 999574, 999575, 999577, 999578,
      999579, 999581, 999582, 999584, 999585, 999586, 999588, 999589, 999590, 999592,
      999593, 999594, 999596, 999597, 999599, 999600, 999601, 999603, 999604, 999605,
      999606, 999608, 999609, 999610, 999612, 999613, 999614, 999616, 999617, 999618,
      999619, 999621, 999622, 999623, 999624, 999626, 999627, 999628, 999629, 999631,
      999632, 999633, 999634, 999636, 999637, 999638, 999639, 999640, 999642, 999643,
      999644, 999645, 999646, 999647, 999649, 999650, 999651, 999652, 999653, 999654,
      999656, 999657, 999658, 999659, 999660, 999661, 999662, 999664, 999665, 999666,
      999667, 999668, 999669, 999670, 999671, 999672, 999673, 999675, 999676, 999677,
      999678, 999679, 999680, 999681, 999682, 999683, 999684, 999685, 999686, 999687,
      999688, 999689, 999690, 999691, 999692, 999694, 999695, 999696, 999697, 999698,
      999699, 999700, 999701, 999702, 999703, 999704, 999705, 999706, 999707, 999707,
      999708, 999709, 999710, 999711, 999712, 999713, 999714, 999715, 999716, 999717,
      999718, 999719, 999720, 999721, 999722, 999723, 999724, 999725, 999725, 999726,
      999727, 999728, 999729, 999730, 999731, 999732, 999733, 999734, 999734, 999735,
      999736, 999737, 999738, 999739, 999740, 999741, 999741, 999742, 999743, 999744,
      999745, 999746, 999747, 999747, 999748, 999749, 999750, 999751, 999752, 999752,
      999753, 999754, 999755, 999756, 999756, 999757, 999758, 999759, 999760, 999761,
      999761, 999762, 999763, 999764, 999764, 999765, 999766, 999767, 999768, 999768,
      999769, 999770, 999771, 999771, 999772, 999773, 999774, 999774, 999775, 999776,
      999777, 999777, 999778, 999779, 999780, 999780, 999781, 999782, 999783, 999783,
      999784, 999785, 999785, 999786, 999787, 999788, 999788, 999789, 999790, 999790,
      999791, 999792, 999792, 999793, 999794, 999795, 999795, 999796, 999797, 999797,
      999798, 999799, 999799, 999800, 999801, 999801, 999802, 999803, 999803, 999804,
      999805, 999805, 999806, 999807, 999807, 999808, 999808, 999809, 999810, 999810,
      999811, 999812, 999812, 999813, 999813, 999814, 999815, 999815, 999816, 999817,
      999817, 999818, 999818, 999819, 999820, 999820, 999821, 999821, 999822, 999823,
      999823, 999824, 999824, 999825, 999826, 999826, 999827, 999827, 999828, 999828,
      999829, 999830, 999830, 999831, 999831, 999832, 999832, 999833, 999833, 999834,
      999835, 999835, 999836, 999836, 999837, 999837, 999838, 999838, 999839, 999839,
      999840, 999841, 999841, 999842, 999842, 999843, 999843, 999844, 999844, 999845,
      999845, 999846, 999846, 999847, 999847, 999848, 999848, 999849, 999849, 999850,
      999850, 999851, 999851, 999852, 999852, 999853, 999853, 999854, 999854, 999855,
      999855, 999856, 999856, 999857, 999857, 999858, 999858, 999859, 999859, 999859,
      999860, 999860, 999861, 999861, 999862, 999862, 999863, 999863, 999864, 999864,
      999865, 999865, 999865, 999866, 999866, 999867, 999867, 999868, 999868, 999869,
      999869, 999869, 999870, 999870, 999871, 999871, 999872, 999872, 999872, 999873,
      999873, 999874, 999874, 999875, 999875, 999875, 999876, 999876, 999877, 999877,
      999877, 999878, 999878, 999879, 999879, 999879, 999880, 999880, 999881, 999881,
      999881, 999882, 999882, 999883, 999883, 999883, 999884, 999884, 999885, 999885,
      999885, 999886, 999886, 999886, 999887, 999887, 999888, 999888, 999888, 999889,
      999889, 999889, 999890, 999890, 999891, 999891, 999891, 999892, 999892, 999892,
      999893, 999893, 999893, 999894, 999894, 999895, 999895, 999895, 999896, 999896,
      999896, 999897, 999897, 999897, 999898, 999898, 999898, 999899, 999899, 999899,
      999900, 999900, 999900, 999901, 999901, 999901, 999902, 999902, 999902, 999903,
      999903, 999903, 999904, 999904, 999904, 999905, 999905, 999905, 999905, 999906,
      999906, 999906, 999907, 999907, 999907, 999908, 999908, 999908, 999909, 999909,
      999909, 999910, 999910, 999910, 999910, 999911, 999911, 999911, 999912, 999912,
      999912, 999912, 999913, 999913, 999913, 999914, 999914, 999914, 999914, 999915,
      999915, 999915, 999916, 999916, 999916, 999916, 999917, 999917, 999917, 999918,
      999918, 999918, 999918, 999919, 999919, 999919, 999919, 999920, 999920, 999920,
      999921, 999921, 999921, 999921, 999922, 999922, 999922, 999922, 999923, 999923,
      999923, 999923, 999924, 999924, 999924, 999924, 999925, 999925, 999925, 999925,
      999926, 999926, 999926, 999926, 999927, 999927, 999927, 999927, 999928, 999928,
      999928, 999928, 999929, 999929, 999929, 999929, 999930, 999930, 999930, 999930,
      999930, 999931, 999931, 999931, 999931, 999932, 999932, 999932, 999932, 999933,
      999933, 999933, 999933, 999933, 999934, 999934, 999934, 999934, 999935, 999935,
      999935, 999935, 999935, 999936, 999936, 999936, 999936, 999936, 999937, 999937,
      999937, 999937, 999937, 999938, 999938, 999938, 999938, 999939, 999939, 999939,
      999939, 999939, 999940, 999940, 999940, 999940, 999940, 999941, 999941, 999941,
      999941, 999941, 999942, 999942, 999942, 999942, 999942, 999942, 999943, 999943,
      999943, 999943, 999943, 999944, 999944, 999944, 999944, 999944, 999945, 999945,
      999945, 999945, 999945, 999945, 999946, 999946, 999946, 999946, 999946, 999947,
      999947, 999947, 999947, 999947, 999947, 999948, 999948, 999948, 999948, 999948,
      999948, 999949, 999949, 999949, 999949, 999949, 999950, 999950, 999950, 999950,
      999950, 999950, 999951, 999951, 999951, 999951, 999951, 999951, 999951, 999952,
      999952, 999952, 999952, 999952, 999952, 999953, 999953, 999953, 999953, 999953,
      999953, 999954, 999954, 999954, 999954, 999954, 999954, 999954, 999955, 999955,
      999955, 999955, 999955, 999955, 999956, 999956, 999956, 999956, 999956, 999956,
      999956, 999957, 999957, 999957, 999957, 999957, 999957, 999957, 999958, 999958,
      999958, 999958, 999958, 999958, 999958, 999959, 999959, 999959, 999959, 999959,
      999959, 999959, 999959, 999960, 999960, 999960, 999960, 999960, 999960, 999960,
      999961, 999961, 999961, 999961, 999961, 999961, 999961, 999961, 999962, 999962,
      999962, 999962, 999962, 999962, 999962, 999962, 999963, 999963, 999963, 999963,
      999963, 999963, 999963, 999963, 999964, 999964, 999964, 999964, 999964, 999964,
      999964, 999964, 999965, 999965, 999965, 999965, 999965, 999965, 999965, 999965,
      999965, 999966, 999966, 999966, 999966, 999966, 999966, 999966, 999966, 999966,
      999967, 999967, 999967, 999967, 999967, 999967, 999967, 999967, 999967, 999968,
      999968, 999968, 999968, 999968, 999968, 999968, 999968, 999968, 999969, 999969,
      999969, 999969, 999969, 999969, 999969, 999969, 999969, 999969, 999970, 999970,
      999970, 999970, 999970, 999970, 999970, 999970, 999970, 999970, 999971, 999971,
      999971, 999971, 999971, 999971, 999971, 999971, 999971, 999971, 999972, 999972,
      999972, 999972, 999972, 999972, 999972, 999972, 999972, 999972, 999972, 999973,
      999973, 999973, 999973, 999973, 999973, 999973, 999973, 999973, 999973, 999973,
      999974, 999974, 999974, 999974, 999974, 999974, 999974, 999974, 999974, 999974,
      999974, 999975, 999975, 999975, 999975, 999975, 999975, 999975, 999975, 999975,
      999975, 999975, 999975, 999976, 999976, 999976, 999976, 999976, 999976, 999976,
      999976, 999976, 999976, 999976, 999976, 999976, 999977, 999977, 999977, 999977,
      999977, 999977, 999977, 999977, 999977, 999977, 999977, 999977, 999977, 999978,
      999978, 999978, 999978, 999978, 999978, 999978, 999978, 999978, 999978, 999978,
      999978, 999978, 999978, 999979, 999979, 999979, 999979, 999979, 999979, 999979,
      999979, 999979, 999979, 999979, 999979, 999979, 999979, 999980, 999980, 999980,
      999980, 999980, 999980, 999980, 999980, 999980, 999980, 999980, 999980, 999980,
      999980, 999980, 999981, 999981, 999981, 999981, 999981, 999981, 999981, 999981,
      999981, 999981, 999981, 999981, 999981, 999981, 999981, 999981, 999982, 999982,
      999982, 999982, 999982, 999982, 999982, 999982, 999982, 999982, 999982, 999982,
      999982, 999982, 999982, 999982, 999983, 999983, 999983, 999983, 999983, 999983,
      999983, 999983, 999983, 999983, 999983, 999983, 999983, 999983, 999983, 999983,
      999983, 999983, 999984, 999984, 999984, 999984, 999984, 999984, 999984, 999984,
      999984, 999984, 999984, 999984, 999984, 999984, 999984, 999984, 999984, 999984,
      999984, 999985, 999985, 999985, 999985, 999985, 999985, 999985, 999985, 999985,
      999985, 999985, 999985, 999985, 999985, 999985, 999985, 999985, 999985, 999985,
      999985, 999986, 999986, 999986, 999986, 999986, 999986, 999986, 999986, 999986,
      999986, 999986, 999986, 999986, 999986, 999986, 999986, 999986, 999986, 999986,
      999986, 999986, 999987, 999987, 999987, 999987, 999987, 999987, 999987, 999987,
      999987, 999987, 999987, 999987, 999987, 999987, 999987, 999987, 999987, 999987,
      999987, 999987, 999987, 999987, 999987, 999988, 999988, 999988, 999988, 999988,
      999988, 999988, 999988, 999988, 999988, 999988, 999988, 999988, 999988, 999988,
      999988, 999988, 999988, 999988, 999988, 999988, 999988, 999988, 999988, 999988,
      999989, 999989, 999989, 999989, 999989, 999989, 999989, 999989, 999989, 999989,
      999989, 999989, 999989, 999989, 999989, 999989, 999989, 999989, 999989, 999989,
      999989, 999989, 999989, 999989, 999989, 999989, 999989, 999989, 999990, 999990,
      999990, 999990, 999990, 999990, 999990, 999990, 999990, 999990, 999990, 999990,
      999990, 999990, 999990, 999990, 999990, 999990, 999990, 999990, 999990, 999990,
      999990, 999990, 999990, 999990, 999990, 999990, 999990, 999990, 999991, 999991,
      999991, 999991, 999991, 999991, 999991, 999991, 999991, 999991, 999991, 999991,
      999991, 999991, 999991, 999991, 999991, 999991, 999991, 999991, 999991, 999991,
      999991, 999991, 999991, 999991, 999991, 999991, 999991, 999991, 999991, 999991,
      999991, 999992, 999992, 999992, 999992, 999992, 999992, 999992, 999992, 999992,
      999992, 999992, 999992, 999992, 999992, 999992, 999992, 999992, 999992, 999992,
      999992, 999992, 999992, 999992, 999992, 999992, 999992, 999992, 999992, 999992,
      999992, 999992, 999992, 999992, 999992, 999992, 999992, 999992, 999992, 999993,
      999993, 999993, 999993, 999993, 999993, 999993, 999993, 999993, 999993, 999993,
      999993, 999993, 999993, 999993, 999993, 999993, 999993, 999993, 999993, 999993,
      999993, 999993, 999993, 999993, 999993, 999993, 999993, 999993, 999993, 999993,
      999993, 999993, 999993, 999993, 999993, 999993, 999993, 999993, 999993, 999993,
      999993, 999993, 999994, 999994, 999994, 999994, 999994, 999994, 999994, 999994,
      999994, 999994, 999994, 999994, 999994, 999994, 999994, 999994, 999994, 999994,
      999994, 999994, 999994, 999994, 999994, 999994, 999994, 999994, 999994, 999994,
      999994, 999994, 999994, 999994, 999994, 999994, 999994, 999994, 999994, 999994,
      999994, 999994, 999994, 999994, 999994, 999994, 999994, 999994, 999994, 999994,
      999994, 999994, 999995, 999995, 999995, 999995, 999995, 999995, 999995, 999995,
      999995, 999995, 999995, 999995, 999995, 999995, 999995, 999995, 999995, 999995,
      999995, 999995, 999995, 999995, 999995, 999995, 999995, 999995, 999995, 999995,
      999995, 999995, 999995, 999995, 999995, 999995, 999995, 999995, 999995, 999995,
      999995, 999995, 999995, 999995, 999995, 999995, 999995, 999995, 999995, 999995,
      999995, 999995, 999995, 999995, 999995, 999995, 999995, 999995, 999995, 999995,
      999995, 999995, 999996, 999996, 999996, 999996, 999996, 999996, 999996, 999996,
      999996, 999996, 999996, 999996, 999996, 999996, 999996, 999996, 999996, 999996,
      999996, 999996, 999996, 999996, 999996, 999996, 999996, 999996, 999996, 999996,
      999996, 999996, 999996, 999996, 999996, 999996, 999996, 999996, 999996, 999996,
      999996, 999996, 999996, 999996, 999996, 999996, 999996, 999996, 999996, 999996,
      999996, 999996, 999996, 999996, 999996, 999996, 999996, 999996, 999996, 999996,
      999996, 999996, 999996, 999996, 999996, 999996, 999996, 999996, 999996, 999996,
      999996, 999996, 999996, 999996, 999996, 999996, 999996, 999997, 999997, 999997,
      999997, 999997, 999997, 999997, 999997, 999997, 999997, 999997, 999997, 999997,
      999997, 999997, 999997, 999997, 999997, 999997, 999997, 999997, 999997, 999997,
      999997, 999997, 999997, 999997, 999997, 999997, 999997, 999997, 999997, 999997,
      999997, 999997, 999997, 999997, 999997, 999997, 999997, 999997, 999997, 999997,
      999997, 999997, 999997, 999997, 999997, 999997, 999997, 999997, 999997, 999997,
      999997, 999997, 999997, 999997, 999997, 999997, 999997, 999997, 999997, 999997,
      999997, 999997, 999997, 999997, 999997, 999997, 999997, 999997, 999997, 999997,
      999997, 999997, 999997, 999997, 999997, 999997, 999997, 999997, 999997, 999997,
      999997, 999997, 999997, 999997, 999997, 999997, 999997, 999997, 999997, 999997,
      999997, 999997, 999997, 999997, 999997, 999997, 999997, 999997, 999998, 999998,
      999998, 999998, 999998, 999998, 999998, 999998, 999998, 999998, 999998, 999998,
      999998, 999998, 999998, 999998, 999998, 999998, 999998, 999998, 999998, 999998,
      999998, 999998, 999998, 999998, 999998, 999998, 999998, 999998, 999998, 999998,
      999998, 999998, 999998, 999998, 999998, 999998, 999998, 999998, 999998, 999998,
      999998, 999998, 999998, 999998, 999998, 999998, 999998, 999998, 999998, 999998,
      999998, 999998, 999998, 999998, 999998, 999998, 999998, 999998, 999998, 999998,
      999998, 999998, 999998, 999998, 999998, 999998, 999998, 999998, 999998, 999998,
      999998, 999998, 999998, 999998, 999998, 999998, 999998, 999998, 999998, 999998,
      999998, 999998, 999998, 999998, 999998, 999998, 999998, 999998, 999998, 999998,
      999998, 999998, 999998, 999998, 999998, 999998, 999998, 999998, 999998, 999998,
      999998, 999998, 999998, 999998, 999998, 999998, 999998, 999998, 999998, 999998,
      999998, 999998, 999998, 999998, 999998, 999998, 999998, 999998, 999998, 999998,
      999998, 999998, 999998, 999998, 999998, 999998, 999998, 999998, 999998, 999998,
      999998, 999998, 999998, 999998, 999998, 999998, 999998, 999998, 999998, 999998,
      999998, 999998, 999998, 999998, 999998, 999998, 999998, 999998, 999998, 999998,
      999998, 999999, 999999, 999999, 999999, 999999, 999999, 999999, 999999, 999999,
      999999, 999999, 999999, 999999, 999999, 999999, 999999, 999999, 999999, 999999,
      999999, 999999, 999999, 999999, 999999, 999999, 999999, 999999, 999999, 999999,
      999999, 999999, 999999, 999999, 999999, 999999, 999999, 999999, 999999, 999999,
      999999, 999999, 999999, 999999, 999999, 999999, 999999, 999999, 999999, 999999,
      999999, 999999, 999999, 999999, 999999, 999999, 999999, 999999, 999999, 999999,
      999999, 999999, 999999, 999999, 999999, 999999, 999999, 999999, 999999, 999999,
      999999, 999999, 999999, 999999, 999999, 999999, 999999, 999999, 999999, 999999,
      999999, 999999, 999999, 999999, 999999, 999999, 999999, 999999, 999999, 999999,
      999999, 999999, 999999, 999999, 999999, 999999, 999999, 999999, 999999, 999999,
      999999, 999999, 999999, 999999, 999999, 999999, 999999, 999999, 999999, 999999,
      999999, 999999, 999999, 999999, 999999, 999999, 999999, 999999, 999999, 999999,
      999999, 999999, 999999, 999999, 999999, 999999, 999999, 999999, 999999, 999999,
      999999, 999999, 999999, 999999, 999999, 999999, 999999, 999999, 999999, 999999,
      999999, 999999, 999999, 999999, 999999, 999999, 999999, 999999, 999999, 999999,
      999999, 999999, 999999, 999999, 999999, 999999, 999999, 999999, 999999, 999999,
      999999, 999999, 999999, 999999, 999999, 999999, 999999, 999999, 999999, 999999,
      999999, 999999, 999999, 999999, 999999, 999999, 999999, 999999, 999999, 999999,
      999999, 999999, 999999, 999999, 999999, 999999, 999999, 999999, 999999, 999999,
      999999, 999999, 999999, 999999, 999999, 999999, 999999, 999999, 999999, 999999,
      999999, 999999, 999999, 999999, 999999, 999999, 999999, 999999, 999999, 999999,
      999999, 999999, 999999, 999999, 999999, 999999, 999999, 999999, 999999, 999999,
      999999, 999999, 999999, 999999, 999999, 999999, 999999, 999999, 999999, 999999,
      999999, 999999, 999999, 999999, 999999, 999999, 999999, 999999, 999999, 999999,
      999999, 999999, 999999, 999999, 999999, 999999, 999999, 999999, 999999, 999999,
      999999, 999999, 999999, 999999, 999999, 999999, 999999, 999999, 999999, 999999,
      999999, 999999, 999999, 999999, 999999, 999999, 999999, 999999, 999999, 999999,
      999999, 999999, 999999, 999999, 999999, 999999, 999999, 999999, 999999, 999999,
      999999, 999999, 999999, 999999, 999999, 999999, 999999, 999999, 999999, 999999,
      999999, 999999, 999999, 999999, 999999, 999999, 999999, 999999, 999999, 999999,
      999999, 999999, 999999, 999999, 999999, 999999, 999999, 999999, 999999, 999999,
      999999, 999999, 999999, 999999, 999999, 999999, 999999, 999999, 999999, 999999,
      999999, 999999, 999999, 999999, 999999, 999999, 999999, 999999, 999999, 999999,
      999999, 1000000>>

\* math.tanh(a / 600.0) for a >= 0, to the nearest millionth
TanhAbs(a) == IF a >= Len(TanhTable) THEN Unit ELSE TanhTable[a + 1]

\* math.tanh(n / 600.0): tanh is odd
TanhOf600(n) == IF n < 0 THEN -TanhAbs(-n) ELSE TanhAbs(n)

\* long division, a decimal digit at a time: q and r are the quotient and
\* the remainder of a * t by d for the power of ten t taken out of m so far
RECURSIVE MulDivLoop(_, _, _, _)
MulDivLoop(q, r, m, d) ==
    IF m = 1 THEN q
    ELSE MulDivLoop(q * 10 + (r * 10) \div d, (r * 10) % d, m \div 10, d)

\* floor(a * m / d) for d > 0 and m a power of ten, computed without
\* forming a * m
MulDiv(a, m, d) == MulDivLoop(a \div d, a % d, m, d)

\* 2) price fitness relative to budget; an overage of the whole budget or
\* more is 1 - x <= 0 and so lands on the floor 0.05
PriceFitness(pr, b, d) ==
    IF pr <= b
    THEN Max2(Unit \div 4, Unit - MulDiv(pr * 6, Unit \div 10, d))
    ELSE IF (pr - b) * 12 >= 10 * d THEN Unit \div 20
    ELSE Max2(Unit \div 20, Unit - MulDiv((pr - b) * 12, Unit \div 10, d))

PriceScore(price, budget) ==
    IF TruthyNum(price) /\ TruthyNum(budget)
    THEN PriceFitness(Val(price), Val(budget), Max2(Val(budget), 1))
    ELSE (45 * Unit) \div 100

\* 3) social proof: rating / 5 (rating is in tenths) and the review boost
RatingScore(rating) == IF TruthyNum(rating) THEN (Val(rating) * Unit) \div 50 ELSE 0

ReviewBoost(review_count) ==
    IF TruthyNum(review_count) THEN TanhOf600(Val(review_count)) ELSE 0

\* 5) keyword bonus: 0.03 per keyword found in the lower-cased title, at most 0.15
KwHits(title_l, kws) == Cardinality({i \in 1..Len(kws) : Contains(title_l, kws[i])})

\* a keyword bonus without the cap of 0.15
KwBonus_uncapped(p, kws) == KwHits(lower(p.title), kws) * ((3 * Unit) \div 100)

KwBonus(p, kws) ==
    Min2((15 * Unit) \div 100, KwHits(lower(p.title), kws) * ((3 * Unit) \div 100))

\* the weights of similarity, price fitness, rating, review boost and
\* attribute match, in hundredths
Weights == <<30, 30, 18, 10, 12>>

\* floor(sum of Weights[i] * terms[i] / 100), the quotients and the
\* remainders of the terms summed apart so that no product leaves 32 bits
QuotRem(terms) ==
    [i \in 1..5 |-> <<Weights[i] * (terms[i] \div 100), Weights[i] * (terms[i] % 100)>>]

WeightedSum(terms) == SumAt(QuotRem(terms), 1, 1) + SumAt(QuotRem(terms), 2, 1) \div 100

\* the weighted total before the final clamp
\* constraints.get("keywords", [])
KeywordsOf(cons) == IF "keywords" \in DOMAIN cons THEN cons["keywords"] ELSE <<>>

\* A key whose Python value is None where the code expects a list is held
\* as the empty list and named under the tag none_keys of the dict.
NoneKeys(cons) == IF "none_keys" \in DOMAIN cons THEN cons["none_keys"] ELSE {}

\* `for kw in kws` raises TypeError when constraints["keywords"] is None
ScoreRaises(cons) == "keywords" \in NoneKeys(cons)

\* 1) title similarity on the 0..1 scale
TitleSim(p, q) == similar(lower(p.title), lower(q))

WeightedTotal(p, cons, q) ==
    WeightedSum(<<TitleSim(p, q),
                  PriceScore(p.price, GetOpt(cons, "budget")),
                  RatingScore(p.rating),
                  ReviewBoost(p.review_count),
                  attribute_match_score(p, cons)>>)
    + KwBonus(p, KeywordsOf(cons))

\* the total returned as it is
ClampScore_none(total) == total

\* return float(max(0.0, min(1.6, total)))
ClampScore(total) == Max2(0, Min2((16 * Unit) \div 10, total))

score_product(p, cons, q) == ClampScore(WeightedTotal(p, cons, q))

-----------------------------------------------------------------------------
(* dedup and rank_products *)

\* the loop body of dedup: p is appended unless it is similar to a kept one
DedupStep(out, p) ==
    IF \E j \in 1..Len(out) : similar(p.title, out[j].title) > 88 * SimUnit
    THEN out
    ELSE Append(out, p)

\* dedup with each listing compared with the listing just before it only
RECURSIVE DedupAdjacentLoop(_, _, _)
DedupAdjacentLoop(products, i, out) ==
    IF i > Len(products) THEN out
    ELSE IF i > 1 /\ similar(products[i].title, products[i - 1].title) > 88 * SimUnit
         THEN DedupAdjacentLoop(products, i + 1, out)
    ELSE DedupAdjacentLoop(products, i + 1, Append(out, products[i]))

dedup_adjacent(products) == DedupAdjacentLoop(products, 1, <<>>)

\* dedup with each listing compared with every earlier listing, kept or not
RECURSIVE DedupSeenLoop(_, _, _)
DedupSeenLoop(products, i, out) ==
    IF i > Len(products) THEN out
    ELSE IF \E j \in 1..(i - 1) :
                similar(products[i].title, products[j].title) > 88 * SimUnit
         THEN DedupSeenLoop(products, i + 1, out)
    ELSE DedupSeenLoop(products, i + 1, Append(out, products[i]))

dedup_any_seen(products) == DedupSeenLoop(products, 1, <<>>)

RECURSIVE DedupLoop(_, _, _)
DedupLoop(products, i, out) ==
    IF i > Len(products) THEN out
    ELSE DedupLoop(products, i + 1, DedupStep(out, products[i]))

dedup(products) == DedupLoop(products, 1, <<>>)

\* a scorer that drops the listings priced above the budget
Scored_within_budget(its, cons, q) ==
    LET F[n \in 0..Len(its)] ==
            IF n = 0 THEN <<>>
            ELSE IF /\ TruthyNum(its[n].price)
                    /\ TruthyNum(GetOpt(cons, "budget"))
                    /\ Val(its[n].price) > Val(GetOpt(cons, "budget"))
                 THEN F[n - 1]
                 ELSE Append(F[n - 1], <<score_product(its[n], cons, q), its[n]>>)
    IN F[Len(its)]

\* [(score_product(p, constraints, query), p) for p in items]
Scored(its, cons, q) ==
    [i \in 1..Len(its) |-> <<score_product(its[i], cons, q), its[i]>>]

\* The code sorts by the double score_product returns.  The model holds that
\* score in millionths: it is less than ScoreError millionths away from the
\* double, so two doubles are in the order of their model scores when these
\* are at least 2 * ScoreError apart, and in an order the model does not
\* know when they are closer.
ScoreError == 2

\* what the double is computed from: the similarity, the price when it is
\* compared with a budget, the rating, the review count, the points of the
\* filter blocks and the keyword bonus.  Two listings that agree on all of
\* them get the same double.  (token_set_ratio is the rounded quotient of
\* two integers; the four decimals of similar tell two such quotients apart
\* for titles of fewer than 1000 characters.)
ScoreTerms(p, cons, q) ==
    <<TitleSim(p, q),
      IF TruthyNum(p.price) /\ TruthyNum(GetOpt(cons, "budget")) THEN p.price ELSE None,
      IF TruthyNum(p.rating) THEN Val(p.rating) ELSE 0,
      IF TruthyNum(p.review_count) THEN Val(p.review_count) ELSE 0,
      IF DOMAIN cons = {} \/ DOMAIN FiltersOf(cons) = {} THEN <<>>
      ELSE AttrPoints(p, FiltersOf(cons)),
      KwBonus(p, KeywordsOf(cons))>>

\* the scored pairs x and e hold the same double
SameDouble(x, e, cons, q) == ScoreTerms(x[2], cons, q) = ScoreTerms(e[2], cons, q)

\* the double of x can be less than or equal to that of e
CanBeAtMost(x, e) == e[1] + 2 * ScoreError > x[1]

\* the double of x can be greater than that of e
CanBeAbove(x, e, cons, q) ==
    /\ x[1] + 2 * ScoreError > e[1]
    /\ (x[1] >= e[1] + 2 * ScoreError \/ ~SameDouble(x, e, cons, q))

\* the double of x can be greater than or equal to that of e
CanBeAtLeast(x, e) == x[1] + 2 * ScoreError > e[1]

\* the double of x can be less than that of e
CanBeBelow(x, e, cons, q) ==
    /\ e[1] + 2 * ScoreError > x[1]
    /\ (e[1] >= x[1] + 2 * ScoreError \/ ~SameDouble(x, e, cons, q))

\* list.sort(key = score, reverse = True): descending and stable, so an
\* element goes after every element whose double is at least its own
InsertAt(sorted, x, n) ==
    SubSeq(sorted, 1, n) \o <<x>> \o SubSeq(sorted, n + 1, Len(sorted))

\* an insertion that puts an element before the elements of equal score
InsertDesc_unstable(sorted, x, cons, q) ==
    {InsertAt(sorted, x, n) :
        n \in {m \in 0..Len(sorted) :
                  /\ \A i \in 1..m : CanBeBelow(x, sorted[i], cons, q)
                  /\ \A i \in (m + 1)..Len(sorted) : CanBeAtLeast(x, sorted[i])}}

\* the places the sort can give x, which came after the elements of sorted
\* in the list: behind the elements whose double can be at least its own
\* and before the elements whose double can be less
InsertDesc(sorted, x, cons, q) ==
    {InsertAt(sorted, x, n) :
        n \in {m \in 0..Len(sorted) :
                  /\ \A i \in 1..m : CanBeAtMost(x, sorted[i])
                  /\ \A i \in (m + 1)..Len(sorted) : CanBeAbove(x, sorted[i], cons, q)}}

RECURSIVE SortLoop(_, _, _, _, _)
SortLoop(scored, i, acc, cons, q) ==
    IF i > Len(scored) THEN {acc}
    ELSE UNION {SortLoop(scored, i + 1, s, cons, q) :
                   s \in InsertDesc(acc, scored[i], cons, q)}

\* the orders scored.sort can leave the list in: one order, unless two
\* scores are closer than the model tells apart
SortDesc(scored, cons, q) == SortLoop(scored, 1, <<>>, cons, q)

\* scored[:k] for k >= 0
Take(seq, n) == SubSeq(seq, 1, Min2(n, Len(seq)))

\* [p for _, p in top]
ProductsOf(top) == [i \in 1..Len(top) |-> top[i][2]]

\* a ranker that cuts the list to k before sorting it
rank_products_cut_first(products, cons, q, kk) ==
    {ProductsOf(s) :
        s \in SortDesc(Take(Scored(dedup(products), cons, q), kk), cons, q)}

\* the lists rank_products can return: dedup, score, sort, cut to k.  The
\* set holds one list unless two survivors score closer than the model
\* tells apart.
rank_products(products, cons, q, kk) ==
    {ProductsOf(Take(s, kk)) :
        s \in SortDesc(Scored(dedup(products), cons, q), cons, q)}

\* rank_products raises when score_product does, on the first survivor
RankRaises(products, cons) == Len(dedup(products)) > 0 /\ ScoreRaises(cons)

-----------------------------------------------------------------------------
(* The ranker: rank_products and dedup applied to bounded listing lists.    *)

\* longest merged listing list handed to the ranker
MaxListings == 3

\* largest k asked of the ranker (SearchRequest.k >= 1)
MaxK == 2

Listing(t, pr, ra, rc, u, src) ==
    [title |-> t, price |-> pr, rating |-> ra, review_count |-> rc, url |-> u,
     source |-> src, category |-> None, attrs |-> <<>>]

\* listings as the site extractors hand them over: the same item seen on two
\* sites, titles contained in one another, equal-score pairs, and a pair
\* whose scores differ in the seventh decimal (tanh(8) against tanh(166))
ProductPool ==
    {Listing("Nike Shoes", Some(2500), Some(43), Some(4800), "a1", "amazon"),
     Listing("Nike Shoes", Some(2600), Some(41), Some(50), "f1", "flipkart"),
     Listing("Bata Shoes", Some(2500), Some(43), Some(4800), "a2", "amazon"),
     Listing("Puma Shoes", Some(2500), Some(43), Some(100000), "f4", "flipkart"),
     Listing("Shoes", Some(1800), Some(45), Some(200), "a3", "amazon"),
     Listing("Nike Shoes UK 9", None, None, None, "f3", "flipkart")}

RankQueries == {"shoes", "nike shoes uk 9 under 3000"}

RankConstraints ==
    {<<>>,
     [budget |-> Some(3000), category |-> Some("fashion"),
      filters |-> [brand |-> <<"nike">>, size_uk |-> "9"],
      keywords |-> <<"nike">>],
     [budget |-> Some(2000), category |-> None,
      filters |-> [brand |-> <<"puma">>], keywords |-> <<>>]}

ListsUpTo(S, n) == UNION {[1..m -> S] : m \in 0..n}

\* the variables of the scorer and of the two parsers, at rest
PipeIdle == max_price = None /\ category_hint = None /\ summary = ""

\* navigate_and_extract before its first statement: the Playwright driver
\* p, the browser and the context are not open, no exception was raised
\* (exc lists the awaits that raised, the last one on its way out), and
\* caller names the coroutine awaiting the call
NoSession ==
    [playwright |-> FALSE, browser |-> FALSE, context |-> FALSE,
     exc |-> <<>>, caller |-> ""]

NavIdle == sites = <<>> /\ tasks = <<>> /\ session = NoSession

SpecsIdle == specs = <<>>

ExtIdle == PipeIdle /\ NavIdle /\ SpecsIdle

ScoreIdle == product = None /\ score = 0 /\ attr_score = 0 /\ price_score = 0

ParseIdle == title = "" /\ attrs = <<>>

RankInit ==
    /\ ExtIdle
    /\ pc = "start"
    /\ query \in RankQueries
    /\ constraints \in RankConstraints
    /\ k \in 1..MaxK
    /\ raw_results \in ListsUpTo(ProductPool, MaxListings)
    /\ items = <<>>
    /\ items2 = <<>>
    /\ ranked = <<>>
    /\ ScoreIdle
    /\ ParseIdle

\* dedup(products) on the merged list
Dedup ==
    /\ pc = "start"
    /\ items' = dedup(raw_results)
    /\ pc' = "deduped"
    /\ UNCHANGED <<ext_vars, query, constraints, k, raw_results, items2, ranked,
                   product, score, attr_score, title, attrs>>

\* dedup applied to the list dedup returned
DedupAgain ==
    /\ pc = "deduped"
    /\ items2' = dedup(items)
    /\ pc' = "rededuped"
    /\ UNCHANGED <<ext_vars, query, constraints, k, raw_results, items, ranked,
                   product, score, attr_score, title, attrs>>

\* ranker_node: ranked = rank_products(raw_results, constraints, query, k)
RankProducts ==
    /\ pc = "start"
    /\ items' = dedup(raw_results)
    /\ IF RankRaises(raw_results, constraints)
       THEN ranked' = ranked /\ pc' = "raised"
       ELSE /\ ranked' \in rank_products(raw_results, constraints, query, k)
            /\ pc' = "ranked"
    /\ UNCHANGED <<ext_vars, query, constraints, k, raw_results, items2,
                   product, score, attr_score, title, attrs>>

RankNext == Dedup \/ DedupAgain \/ RankProducts

SpecRank == RankInit /\ [][RankNext]_vars

-----------------------------------------------------------------------------
(* Properties of the ranker *)

\* the score the ranker gave a listing in the current run
ScoreOf(p) == score_product(p, constraints, query)

\* index of the first occurrence of p in the merged input list
PosOf(p) == SetMin({i \in 1..Len(raw_results) : raw_results[i] = p})

\* listings i and j of the merged input list are near-duplicates
Sim(i, j) == similar(raw_results[i].title, raw_results[j].title) > 88 * SimUnit

\* the subsequence of seq at the indices in K
RECURSIVE PickFrom(_, _, _)
PickFrom(seq, K, i) ==
    IF i > Len(seq) THEN <<>>
    ELSE (IF i \in K THEN <<seq[i]>> ELSE <<>>) \o PickFrom(seq, K, i + 1)

\* the score of p is not below that of d, as far as the model tells two
\* scores apart
NotBelow(p, d) == ScoreOf(p) + 2 * ScoreError > ScoreOf(d)

\* the scores of p and d are computed from the same terms, and so are equal
EqualScores(p, d) ==
    ScoreTerms(p, constraints, query) = ScoreTerms(d, constraints, query)

\* C1: rank_products returns exactly min(k, |dedup(L)|) listings, each a
\* different survivor of dedup(L), in non-increasing score order, and every
\* returned listing scores at least as high as every survivor left out
\* (scores compared as far as the model tells them apart).
C1_TopK ==
    pc = "ranked" =>
        /\ Len(ranked) = Min2(k, Len(dedup(raw_results)))
        /\ \A i \in 1..Len(ranked) : ranked[i] \in Range(dedup(raw_results))
        /\ \A i, j \in 1..Len(ranked) : i # j => ranked[i] # ranked[j]
        /\ \A i \in 1..(Len(ranked) - 1) : NotBelow(ranked[i], ranked[i + 1])
        /\ \A p \in Range(ranked) : \A d \in Range(dedup(raw_results)) \ Range(ranked) :
               NotBelow(p, d)

\* a run where dedup dropped a listing, k cut a survivor off, and the listing
\* returned is not the first survivor
C1_Witness ==
    /\ pc = "ranked"
    /\ Len(items) < Len(raw_results)
    /\ k < Len(items)
    /\ Len(ranked) = k
    /\ ranked[1] # items[1]
    /\ ScoreOf(ranked[1]) > ScoreOf(items[1])

\* C2: two returned listings of equal score appear in the order they had in
\* the input list (the descending sort is stable).
C2_StableTies ==
    pc = "ranked" =>
        \A i, j \in 1..Len(ranked) :
            (i < j /\ EqualScores(ranked[i], ranked[j]))
                => PosOf(ranked[i]) < PosOf(ranked[j])

\* a run that returned two different listings of equal score
C2_Witness ==
    /\ pc = "ranked"
    /\ Len(ranked) = 2
    /\ ranked[1].title # ranked[2].title
    /\ EqualScores(ranked[1], ranked[2])

\* C3: dedup is idempotent: dedup applied to the list dedup returned gives
\* the same list, element for element.
C3_DedupIdempotent == pc = "rededuped" => items2 = items

\* dedup ran twice on a list from which the first pass dropped a listing and
\* kept at least two
C3_Witness ==
    /\ pc = "rededuped"
    /\ Len(items) >= 2
    /\ Len(items) < Len(raw_results)

\* C4: dedup is a first-seen-wins greedy pass: its output is the input
\* restricted to an index set K that holds the first index, in which no
\* listing is a near-duplicate of an earlier listing of K, and outside which
\* every listing is a near-duplicate of an earlier listing of K.
C4_GreedyFirstSeen ==
    pc = "deduped" =>
        \E K \in SUBSET (1..Len(raw_results)) :
            /\ items = PickFrom(raw_results, K, 1)
            /\ Len(raw_results) > 0 => 1 \in K
            /\ \A i \in K : \A j \in K : j < i => ~Sim(i, j)
            /\ \A i \in (1..Len(raw_results)) \ K : \E j \in K : j < i /\ Sim(i, j)

\* dedup kept a listing that is a near-duplicate of an earlier, dropped one
C4_Witness ==
    /\ pc = "deduped"
    /\ \E i, j \in 1..Len(raw_results) :
           /\ j < i
           /\ Sim(i, j)
           /\ raw_results[i] \in Range(items)
           /\ raw_results[j] \notin Range(items)

-----------------------------------------------------------------------------
(* The scorer: score_product and attribute_match_score applied to one       *)
(* listing.  Product puts no range on price, rating or review_count, so the *)
(* pool holds a negative price and a negative rating beside the usual ones. *)

WithAttrs(p, pattrs) == [p EXCEPT !.attrs = pattrs]

ScoreProducts ==
    {WithAttrs(Listing("Nike Shoes UK 9", Some(2500), Some(43), Some(800), "a1", "amazon"),
               [brand |-> <<"Nike">>, size_uk |-> "9", color |-> <<"Black">>]),
     Listing("Nike Shoes UK 9", Some(2500), Some(43), Some(800), "f1", "flipkart"),
     WithAttrs(Listing("Prestige Cooker 5 L", Some(3500), None, Some(50), "a2", "amazon"),
               [capacity_l |-> "5.2", material |-> <<"steel">>]),
     WithAttrs(Listing("Lenovo Laptop", Some(0), Some(50), Some(3000), "f2", "flipkart"),
               [brand |-> <<>>, maker |-> <<"lenovo">>, ram_gb |-> "16", storage_gb |-> "512"]),
     Listing("nike shoes", Some(-2000), Some(50), Some(3000), "a3", "amazon"),
     Listing("Kettle", None, Some(-50), None, "f3", "flipkart"),
     WithAttrs(Listing("Ideapad Laptop", Some(2500), Some(40), None, "a4", "amazon"),
               [brand |-> <<"Generic">>, maker |-> <<"Lenovo">>])}

ScoreQueries == {"nike shoes", "steel cooker 5l under 3000", ""}

ScoreConstraints ==
    {<<>>,
     [budget |-> Some(3000), keywords |-> <<>>],
     [budget |-> Some(3000), category |-> None, filters |-> <<>>, keywords |-> <<"nike", "shoes">>],
     [budget |-> Some(100), category |-> Some("fashion"),
      filters |-> [brand |-> <<"nike">>, size_uk |-> "9", color |-> <<"black", "white">>],
      keywords |-> <<"nike", "shoes", "uk", "9">>],
     [budget |-> Some(3000), category |-> Some("home-kitchen"),
      filters |-> [capacity_l |-> "5", material |-> <<"steel">>],
      keywords |-> <<"steel", "cooker">>],
     [budget |-> None, category |-> Some("electronics"),
      filters |-> [brand |-> <<"lenovo">>, ram_gb |-> "16", storage_gb |-> "256"],
      keywords |-> <<"lenovo">>],
     [budget |-> None, category |-> None, filters |-> [brand |-> <<>>], keywords |-> <<>>],
     [budget |-> None, category |-> None, filters |-> [refresh_hz |-> "120"], keywords |-> <<>>],
     [budget |-> None, category |-> None, filters |-> [brand |-> <<"lenovo", "nike">>],
      keywords |-> <<>>]}

RankIdle == k = 1 /\ raw_results = <<>> /\ items = <<>> /\ items2 = <<>> /\ ranked = <<>>

ScoreInit ==
    /\ ExtIdle
    /\ pc = "start"
    /\ product \in {Some(p) : p \in ScoreProducts}
    /\ constraints \in ScoreConstraints
    /\ query \in ScoreQueries
    /\ score = 0
    /\ attr_score = 0
    /\ price_score = 0
    /\ RankIdle
    /\ ParseIdle

\* score_product(p, constraints, query)
ScoreProduct ==
    /\ pc = "start"
    /\ IF ScoreRaises(constraints)
       THEN score' = score /\ pc' = "raised"
       ELSE /\ score' = score_product(Val(product), constraints, query)
            /\ pc' = "scored"
    /\ UNCHANGED <<ext_vars, query, constraints, k, raw_results, items, items2, ranked,
                   product, attr_score, title, attrs>>

\* attribute_match_score(p, constraints)
AttributeMatchScore ==
    /\ pc = "start"
    /\ attr_score' = attribute_match_score(Val(product), constraints)
    /\ pc' = "matched"
    /\ UNCHANGED <<ext_vars, query, constraints, k, raw_results, items, items2, ranked,
                   product, score, title, attrs>>

ScoreNext == ScoreProduct \/ AttributeMatchScore

SpecScore == ScoreInit /\ [][ScoreNext]_vars

\* C5: for every listing, constraints and query the score that score_product
\* returns lies between 0.0 and 1.6, both ends included.
C5_ScoreBounded == pc = "scored" => (0 <= score /\ score <= (16 * Unit) \div 10)

\* a score whose weighted total was above 1.6 and came back as 1.6
C5_Witness ==
    /\ pc = "scored"
    /\ WeightedTotal(Val(product), constraints, query) > (16 * Unit) \div 10
    /\ score = (16 * Unit) \div 10

\* C6: attribute_match_score returns 0.0 when the constraints are empty, when
\* they hold no filters or empty filters, and when no filter key applies,
\* whatever the listing's attrs; in every case its value lies in [0, 1].
C6_AttrScoreZeroOrUnit ==
    pc = "matched" =>
        /\ 0 <= attr_score /\ attr_score <= Unit
        /\ DOMAIN constraints = {} => attr_score = 0
        /\ DOMAIN FiltersOf(constraints) = {} => attr_score = 0
        /\ SumAt(AttrPoints(Val(product), FiltersOf(constraints)), 2, 1) = 0
               => attr_score = 0

\* a listing with attrs scored against constraints that ask for nothing
C6_Witness ==
    /\ pc = "matched"
    /\ DOMAIN Val(product).attrs # {}
    /\ DOMAIN constraints # {}
    /\ SumAt(AttrPoints(Val(product), FiltersOf(constraints)), 2, 1) = 0
    /\ attr_score = 0

-----------------------------------------------------------------------------
(* Patterns.  Both parsers lower-case the text before they match, so the    *)
(* re.I flag changes nothing and the literals below are lower-case.  A      *)
(* pattern is modelled by its match at one start position i: the text of    *)
(* group 1, or None when the pattern does not match at i.  After a greedy   *)
(* run of digits or blanks every pattern asks for a character that is no    *)
(* digit (no blank), so giving characters back never opens another match.   *)

\* the position after \s* at position j
AfterBlanks(s, j) == j + SpaceRun(s, j)

\* \s*unit\b at position j
UnitAt(s, j, unit) ==
    /\ LitAt(s, AfterBlanks(s, j), unit)
    /\ Boundary(s, AfterBlanks(s, j) + Len(unit))

\* the position after (?:\.\d+)? at position j
FractionEnd(s, j) ==
    IF LitAt(s, j, ".") /\ DigitRun(s, j + 1) > 0 THEN j + 1 + DigitRun(s, j + 1) ELSE j

\* the position after (?:\.\d)? at position j
OneDecimalEnd(s, j) ==
    IF LitAt(s, j, ".") /\ DigitRun(s, j + 1) > 0 THEN j + 2 ELSE j

\* m.group(1) = s[i..e) of a match, None without a match
GroupIf(ok, s, i, e) == IF ok THEN Some(SubSeq(s, i, e - 1)) ELSE None

\* _rx_num(unit): \b(\d+(?:\.\d+)?)\s*unit\b
_rx_num(unit, s, i) ==
    GroupIf(/\ Boundary(s, i)
            /\ DigitRun(s, i) >= 1
            /\ UnitAt(s, FractionEnd(s, i + DigitRun(s, i)), unit),
            s, i, FractionEnd(s, i + DigitRun(s, i)))

\* \b(\d{lo,hi})\s*unit\b
DigitsUnitAt(s, i, lo, hi, unit) ==
    GroupIf(/\ Boundary(s, i)
            /\ DigitRun(s, i) \in lo..hi
            /\ UnitAt(s, i + DigitRun(s, i), unit),
            s, i, i + DigitRun(s, i))

\* (?:\s*RAM)?\b at position j
RamTailAt(s, j) ==
    \/ Boundary(s, j)
    \/ LitAt(s, AfterBlanks(s, j), "ram") /\ Boundary(s, AfterBlanks(s, j) + 3)

\* \b(\d{1,2})\s*GB(?:\s*RAM)?\b
RX_RAM_GB(s, i) ==
    GroupIf(/\ Boundary(s, i)
            /\ DigitRun(s, i) \in 1..2
            /\ LitAt(s, AfterBlanks(s, i + DigitRun(s, i)), "gb")
            /\ RamTailAt(s, AfterBlanks(s, i + DigitRun(s, i)) + 2),
            s, i, i + DigitRun(s, i))

\* \b(\d{2,4})\s*GB\b
RX_STORAGE_GB(s, i) == DigitsUnitAt(s, i, 2, 4, "gb")

\* \b(\d(?:\.\d)?)\s*TB\b
RX_STORAGE_TB(s, i) ==
    GroupIf(/\ Boundary(s, i)
            /\ DigitRun(s, i) = 1
            /\ UnitAt(s, OneDecimalEnd(s, i + 1), "tb"),
            s, i, OneDecimalEnd(s, i + 1))

\* \b(\d{3,5})\s*mAh\b
RX_BATTERY_MAH(s, i) == DigitsUnitAt(s, i, 3, 5, "mah")

\* \b(60|90|120|144|165|240)\s*Hz\b
RefreshRates == {"60", "90", "120", "144", "165", "240"}

RefreshHits(s, i) == {a \in RefreshRates : LitAt(s, i, a) /\ UnitAt(s, i + Len(a), "hz")}

RX_REFRESH_HZ(s, i) ==
    IF Boundary(s, i) /\ RefreshHits(s, i) # {}
    THEN Some(CHOOSE a \in RefreshHits(s, i) : TRUE)
    ELSE None

\* \s*inch(?:es)?\b at position j
InchTailAt(s, j) ==
    /\ LitAt(s, AfterBlanks(s, j), "inch")
    /\ \/ Boundary(s, AfterBlanks(s, j) + 4)
       \/ LitAt(s, AfterBlanks(s, j) + 4, "es") /\ Boundary(s, AfterBlanks(s, j) + 6)

\* \b(\d{2}(?:\.\d)?)\s*inch(?:es)?\b
RX_SCREEN_IN(s, i) ==
    GroupIf(/\ Boundary(s, i)
            /\ DigitRun(s, i) = 2
            /\ InchTailAt(s, OneDecimalEnd(s, i + 2)),
            s, i, OneDecimalEnd(s, i + 2))

\* (\d{1,2})\b at position j
SizeDigitsAt(s, j) ==
    GroupIf(DigitRun(s, j) \in 1..2 /\ Boundary(s, j + DigitRun(s, j)),
            s, j, j + DigitRun(s, j))

\* RX_SIZE_UK, RX_SIZE_US, RX_SIZE_EU: \bprefix\s*(\d{1,2})\b
RX_SIZE(prefix, s, i) ==
    IF Boundary(s, i) /\ LitAt(s, i, prefix)
    THEN SizeDigitsAt(s, AfterBlanks(s, i + Len(prefix)))
    ELSE None

\* \s*(?:L|Litre|Liters|Litres)\b at position j
LitreUnits == {"l", "litre", "liters", "litres"}

LitreUnitAt(s, j) == \E u \in LitreUnits : UnitAt(s, j, u)

\* the position after (?:\.?\d*) behind a group that took at most three of the
\* n digits at i; 0 when a dot follows more than three digits, which neither
\* \.? nor the unit can take
LitreNumEnd(s, i, n) ==
    IF LitAt(s, i + n, ".")
    THEN (IF n <= 3 THEN i + n + 1 + DigitRun(s, i + n + 1) ELSE 0)
    ELSE i + n

\* \b(\d{1,3})(?:\.?\d*)\s*(?:L|Litre|Liters|Litres)\b
RX_LITRE(s, i) ==
    GroupIf(/\ Boundary(s, i)
            /\ DigitRun(s, i) >= 1
            /\ LitreNumEnd(s, i, DigitRun(s, i)) > 0
            /\ LitreUnitAt(s, LitreNumEnd(s, i, DigitRun(s, i))),
            s, i, i + Min2(DigitRun(s, i), 3))

\* rx.search(text) and m.group(1): the match at the leftmost position that
\* has one; matches[i] is the pattern's match at position i
_first(matches) ==
    IF \A i \in DOMAIN matches : matches[i] = None THEN None
    ELSE matches[SetMin({i \in DOMAIN matches : matches[i] # None})]

\* a or b on two optional strings
OrElse(a, b) == IF TruthyLen(a) THEN a ELSE b

-----------------------------------------------------------------------------
(* parse_generic_attrs_from_title *)

CPU_TOKENS ==
    <<"i3", "i5", "i7", "i9",
      "ryzen 3", "ryzen 5", "ryzen 7", "ryzen 9",
      "m1", "m2", "m3", "m4",
      "celeron", "pentium", "mediatek", "snapdragon", "exynos", "dimensity", "helio">>

PANEL_TOKENS ==
    <<"oled", "amoled", "ips", "tn", "va", "fhd", "full hd", "qhd", "uhd", "4k", "touch">>

MATERIAL_TOKENS ==
    <<"leather", "synthetic", "mesh", "cotton", "polyester", "nylon", "canvas", "suede",
      "stainless", "stainless steel", "steel", "cast iron", "aluminium", "aluminum",
      "ceramic", "glass", "bamboo", "wood", "nonstick", "non-stick">>

COLOR_TOKENS ==
    <<"black", "white", "silver", "grey", "gray", "red", "blue", "green", "yellow", "pink",
      "purple", "orange", "gold", "rose", "beige", "brown", "maroon", "navy", "teal">>

\* the words of vocab found in text, in vocab order
RECURSIVE WordsIn(_, _, _)
WordsIn(text, vocab, i) ==
    IF i > Len(vocab) THEN <<>>
    ELSE (IF Contains(text, vocab[i]) THEN <<vocab[i]>> ELSE <<>>)
         \o WordsIn(text, vocab, i + 1)

_tokens_present(text, vocab) == WordsIn(lower(text), vocab, 1)

\* list(dict.fromkeys(xs)): the first occurrence of every element, in order
RECURSIVE FromKeys(_, _, _)
FromKeys(xs, i, out) ==
    IF i > Len(xs) THEN out
    ELSE IF xs[i] \in Range(out) THEN FromKeys(xs, i + 1, out)
    ELSE FromKeys(xs, i + 1, Append(out, xs[i]))

DictFromKeys(xs) == FromKeys(xs, 1, <<>>)

\* a storage_gb taken whether or not a TB figure was found
StorageGbOf_ungated(t, storage_tb) == _first([i \in 1..Len(t) |-> RX_STORAGE_GB(t, i)])

\* storage_gb = None if storage_tb else _first(RX_STORAGE_GB, t)
StorageGbOf(t, storage_tb) ==
    IF TruthyLen(storage_tb) THEN None
    ELSE _first([i \in 1..Len(t) |-> RX_STORAGE_GB(t, i)])

\* what the title yields for each attribute: an optional string for a
\* pattern, the list of hits for a vocabulary
TitleFields(t) ==
    [ram_gb      |-> _first([i \in 1..Len(t) |-> RX_RAM_GB(t, i)]),
     storage_tb  |-> _first([i \in 1..Len(t) |-> RX_STORAGE_TB(t, i)]),
     storage_gb  |-> StorageGbOf(t, _first([i \in 1..Len(t) |-> RX_STORAGE_TB(t, i)])),
     battery_mah |-> _first([i \in 1..Len(t) |-> RX_BATTERY_MAH(t, i)]),
     refresh_hz  |-> _first([i \in 1..Len(t) |-> RX_REFRESH_HZ(t, i)]),
     screen_in   |-> _first([i \in 1..Len(t) |-> RX_SCREEN_IN(t, i)]),
     size_uk     |-> _first([i \in 1..Len(t) |-> RX_SIZE("uk", t, i)]),
     size_us     |-> _first([i \in 1..Len(t) |-> RX_SIZE("us", t, i)]),
     size_eu     |-> _first([i \in 1..Len(t) |-> RX_SIZE("eu", t, i)]),
     capacity_l  |-> OrElse(_first([i \in 1..Len(t) |-> RX_LITRE(t, i)]),
                            _first([i \in 1..Len(t) |-> _rx_num("l", t, i)])),
     watt        |-> _first([i \in 1..Len(t) |-> _rx_num("w", t, i)]),
     cpu         |-> Some(DictFromKeys(_tokens_present(t, CPU_TOKENS))),
     panel       |-> Some(DictFromKeys(_tokens_present(t, PANEL_TOKENS))),
     material    |-> Some(DictFromKeys(_tokens_present(t, MATERIAL_TOKENS))),
     color       |-> Some(DictFromKeys(_tokens_present(t, COLOR_TOKENS)))]

\* the attrs dict: `if value: attrs[key] = value` for every field
SetAttrs(fields) ==
    [key \in {x \in DOMAIN fields : TruthyLen(fields[x])} |-> Val(fields[key])]

parse_generic_attrs_from_title(ttl) == SetAttrs(TitleFields(lower(ttl)))

-----------------------------------------------------------------------------
(* parse_constraints *)

\* CATEGORY_KEYWORDS, in the dict's insertion order
CATEGORY_KEYWORDS ==
    <<[cat |-> "electronics",
       kws |-> <<"laptop", "notebook", "ultrabook", "macbook",
                 "mobile", "smartphone", "phone", "earbuds", "headphones", "camera",
                 "tablet", "ipad", "monitor", "tv", "television", "router", "printer",
                 "smartwatch", "wearable", "ssd", "hdd", "pendrive", "power bank">>],
      [cat |-> "fashion",
       kws |-> <<"shoes", "sneakers", "sandals", "heels", "loafers",
                 "t-shirt", "shirt", "jeans", "kurta", "saree", "hoodie", "jacket",
                 "backpack", "bag", "duffle", "wallet", "belt">>],
      [cat |-> "home-kitchen",
       kws |-> <<"utensils", "cookware", "pan", "kadhai", "frying pan", "pressure cooker",
                 "bottle", "flask", "mug", "tiffin", "lunch box", "container", "plate",
                 "nonstick", "non-stick", "induction", "stainless", "cutlery">>],
      [cat |-> "appliances",
       kws |-> <<"fridge", "refrigerator", "washing machine", "ac", "air conditioner",
                 "microwave", "oven", "chimney", "cooler", "geyser", "water heater">>],
      [cat |-> "sports",
       kws |-> <<"football", "cricket bat", "bat", "ball", "badminton", "racket",
                 "dumbbell", "treadmill", "yoga", "gym bag">>],
      [cat |-> "beauty",
       kws |-> <<"shampoo", "conditioner", "lotion", "cream", "facewash", "makeup",
                 "lipstick", "perfume", "deodorant", "serum">>]>>

BRANDS ==
    <<"apple", "samsung", "oneplus", "xiaomi", "redmi", "realme", "oppo", "vivo",
      "dell", "hp", "lenovo", "asus", "acer", "msi", "lg", "sony", "boat", "jbl", "noise",
      "canon", "nikon", "sandisk", "seagate", "wd", "western digital",
      "nike", "adidas", "puma", "reebok", "bata", "woodland", "zara", "h&m", "levis",
      "allen solly", "us polo", "wildcraft", "american tourister", "skybag", "safari",
      "prestige", "pigeon", "hawkins", "milton", "cello", "borosil", "butterfly", "vinod",
      "whirlpool", "bosch", "ifb", "voltas", "panasonic", "hitachi", "haier", "godrej">>

COLORS ==
    <<"black", "white", "silver", "grey", "gray", "red", "blue", "green", "yellow", "pink",
      "purple", "orange", "gold", "rose", "beige", "brown", "maroon", "navy", "teal">>

MATERIALS ==
    <<"leather", "synthetic", "mesh", "cotton", "polyester", "nylon", "canvas", "suede",
      "stainless", "stainless steel", "steel", "cast iron", "aluminium", "aluminum",
      "ceramic", "glass", "bamboo", "wood">>

\* the tokens the keyword bag is filled from, after the lexicon hits
KEYWORD_TOKENS ==
    <<"gaming", "lightweight", "waterproof", "nonstick", "non-stick", "induction",
      "wireless", "bluetooth", "noise cancelling", "anc", "fast charging",
      "camera", "5g", "4g", "dual sim", "backlit", "fingerprint">>

\* (\d+)\s*k at position j, without the \b after k
UnderKDigitsAt_unbounded(s, j) ==
    GroupIf(/\ DigitRun(s, j) >= 1
            /\ LitAt(s, AfterBlanks(s, j + DigitRun(s, j)), "k"),
            s, j, j + DigitRun(s, j))

\* (\d+)\s*k\b at position j
UnderKDigitsAt(s, j) ==
    GroupIf(/\ DigitRun(s, j) >= 1
            /\ LitAt(s, AfterBlanks(s, j + DigitRun(s, j)), "k")
            /\ Boundary(s, AfterBlanks(s, j + DigitRun(s, j)) + 1),
            s, j, j + DigitRun(s, j))

\* under\s*(\d+)\s*k\b
RX_UNDER_K(s, i) ==
    IF LitAt(s, i, "under") THEN UnderKDigitsAt(s, AfterBlanks(s, i + 5)) ELSE None

\* length of the longest run of digits and commas ([0-9,]*) that starts at j
RECURSIVE AmountRun(_, _)
AmountRun(s, j) ==
    IF j >= 1 /\ j <= Len(s) /\ (IsDigit(Ch(s, j)) \/ Ch(s, j) = ",")
    THEN 1 + AmountRun(s, j + 1)
    ELSE 0

\* ([0-9][0-9,]*) at position j
AmountAt(s, j) ==
    GroupIf(DigitRun(s, j) >= 1, s, j, j + AmountRun(s, j))

\* the alternatives of (?:under|below|less than|<=), in order
BUDGET_WORDS == <<"under", "below", "less than", "<=">>

\* (?:under|below|less than|<=)\s*([0-9][0-9,]*)
RX_BUDGET_ANY(s, i) ==
    _first([w \in 1..Len(BUDGET_WORDS) |->
                IF LitAt(s, i, BUDGET_WORDS[w])
                THEN AmountAt(s, AfterBlanks(s, i + Len(BUDGET_WORDS[w])))
                ELSE None])

\* str.replace(",", "")
RECURSIVE StripCommas(_)
StripCommas(s) ==
    IF s = "" THEN ""
    ELSE (IF Head(s) = "," THEN "" ELSE Head(s)) \o StripCommas(Tail(s))

\* budget, from the two searches: int(float(group) * 1000) of the first,
\* else int(group.replace(",", "")) of the second, else None
BudgetFrom(m, n) ==
    IF m # None THEN Some(DigitsVal(Val(m)) * 1000)
    ELSE IF n # None THEN Some(DigitsVal(StripCommas(Val(n))))
    ELSE None

BudgetOf(q) ==
    BudgetFrom(_first([i \in 1..Len(q) |-> RX_UNDER_K(q, i)]),
               _first([i \in 1..Len(q) |-> RX_BUDGET_ANY(q, i)]))

\* any(k in q for k in kws)
AnyWordIn(q, kws) == \E i \in 1..Len(kws) : Contains(q, kws[i])

\* the first category one of whose keywords is in the query
CategoryOf(q) ==
    _first([c \in 1..Len(CATEGORY_KEYWORDS) |->
                IF AnyWordIn(q, CATEGORY_KEYWORDS[c].kws)
                THEN Some(CATEGORY_KEYWORDS[c].cat)
                ELSE None])

_contains_any(text, words) == WordsIn(text, words, 1)

\* _first_match(rx, text)
_first_match(matches) == _first(matches)

\* ram_gb = _first_match(RX_RAM_GB, q) if "gb" in q else None
RamGbOf(q) ==
    IF Contains(q, "gb") THEN _first_match([i \in 1..Len(q) |-> _rx_num("gb", q, i)])
    ELSE None

\* a storage_gb searched for whether or not a ram_gb was found
QueryStorageGbOf_ungated(q, ram_gb) ==
    IF Contains(q, "gb")
    THEN _first_match([i \in 1..Len(q) |-> _rx_num("gb", q, i)])
    ELSE None

\* storage_gb = _first_match(RX_STORAGE_GB, q) if ("gb" in q and not ram_gb) else None
QueryStorageGbOf(q, ram_gb) ==
    IF Contains(q, "gb") /\ ~TruthyLen(ram_gb)
    THEN _first_match([i \in 1..Len(q) |-> _rx_num("gb", q, i)])
    ELSE None

\* storage_tb = _first_match(RX_STORAGE_TB, q) if "tb" in q else None
QueryStorageTbOf(q) ==
    IF Contains(q, "tb") THEN _first_match([i \in 1..Len(q) |-> _rx_num("tb", q, i)])
    ELSE None

\* what the query yields for each filter key
QueryFields(q) ==
    [brand       |-> Some(DictFromKeys(_contains_any(q, BRANDS))),
     color       |-> Some(DictFromKeys(_contains_any(q, COLORS))),
     material    |-> Some(DictFromKeys(_contains_any(q, MATERIALS))),
     size_uk     |-> _first_match([i \in 1..Len(q) |-> RX_SIZE("uk", q, i)]),
     size_us     |-> _first_match([i \in 1..Len(q) |-> RX_SIZE("us", q, i)]),
     size_eu     |-> _first_match([i \in 1..Len(q) |-> RX_SIZE("eu", q, i)]),
     capacity_l  |-> _first_match([i \in 1..Len(q) |-> _rx_num("l", q, i)]),
     ram_gb      |-> RamGbOf(q),
     storage_tb  |-> QueryStorageTbOf(q),
     storage_gb  |-> QueryStorageGbOf(q, RamGbOf(q)),
     battery_mah |-> _first_match([i \in 1..Len(q) |-> RX_BATTERY_MAH(q, i)])]

\* a filters dict that stores every key, found or not
SetFilters_every_key(fields) ==
    [key \in DOMAIN fields |-> IF fields[key] = None THEN None ELSE Val(fields[key])]

\* the filters dict: `if value: filters[key] = value` for every key
SetFilters(fields) ==
    [key \in {x \in DOMAIN fields : TruthyLen(fields[x])} |-> Val(fields[key])]

\* keyword_bag: brands, colors, materials, then the tokens found
KeywordBag(q) ==
    _contains_any(q, BRANDS) \o _contains_any(q, COLORS) \o _contains_any(q, MATERIALS)
        \o WordsIn(q, KEYWORD_TOKENS, 1)

ConstraintsOf(q) ==
    [budget   |-> BudgetOf(q),
     category |-> CategoryOf(q),
     filters  |-> SetFilters(QueryFields(q)),
     keywords |-> KeywordBag(q)]

parse_constraints(qry) == ConstraintsOf(lower(qry))

-----------------------------------------------------------------------------
(* The title parser applied to listing titles put together from fragments.  *)

\* most fragments in a title
MaxTitleFrags == 2

TitleFrags ==
    {"Dell Laptop", "16GB RAM,", "8GB RAM", "512GB storage", "1TB SSD", "1.5 TB",
     "256GB", "Bottle 1.5L", "Black Steel", "UK 9"}

\* " ".join(words)
RECURSIVE JoinWords(_)
JoinWords(words) ==
    IF Len(words) = 0 THEN ""
    ELSE IF Len(words) = 1 THEN words[1]
    ELSE words[1] \o " " \o JoinWords(Tail(words))

Titles == {JoinWords(ws) : ws \in ListsUpTo(TitleFrags, MaxTitleFrags)}

TitleInit ==
    /\ ExtIdle
    /\ pc = "start"
    /\ title \in Titles
    /\ attrs = <<>>
    /\ query = ""
    /\ constraints = <<>>
    /\ RankIdle
    /\ ScoreIdle

\* attrs = parse_generic_attrs_from_title(title)
ParseTitle ==
    /\ pc = "start"
    /\ attrs' = parse_generic_attrs_from_title(title)
    /\ pc' = "parsed"
    /\ UNCHANGED <<ext_vars, query, constraints, k, raw_results, items, items2, ranked,
                   product, score, attr_score, title>>

TitleNext == ParseTitle

SpecTitle == TitleInit /\ [][TitleNext]_vars

\* the title has a TB figure: RX_STORAGE_TB matches somewhere in it
HasTbFigure(ttl) == _first([i \in 1..Len(ttl) |-> RX_STORAGE_TB(lower(ttl), i)]) # None

\* C7: a title with a two-digit RAM figure followed by a larger GB storage
\* figure ("16GB RAM, 512GB storage") and no TB figure yields ram_gb = the
\* RAM figure and storage_gb = the storage figure, never the RAM figure.
C7_RamThenStorage ==
    pc = "parsed" =>
        \A ram \in {"12", "16", "32"} : \A storage \in {"128", "256", "512"} :
            (/\ Contains(title, ram \o "GB RAM, " \o storage \o "GB storage")
             /\ ~HasTbFigure(title))
                => /\ "ram_gb" \in DOMAIN attrs
                   /\ attrs["ram_gb"] = ram
                   /\ "storage_gb" \in DOMAIN attrs
                   /\ attrs["storage_gb"] = storage

\* C8: when the TB pattern matches in the title, the attrs have storage_tb
\* set to the figure matched and have no storage_gb key, even when a GB
\* figure appears in the title too.
C8_TbPrecedence ==
    (pc = "parsed" /\ HasTbFigure(title)) =>
        /\ "storage_tb" \in DOMAIN attrs
        /\ Some(attrs["storage_tb"])
               = _first([i \in 1..Len(title) |-> RX_STORAGE_TB(lower(title), i)])
        /\ "storage_gb" \notin DOMAIN attrs

\* a parsed title with a TB figure and a GB figure that RX_STORAGE_GB matches
C8_Witness ==
    /\ pc = "parsed"
    /\ HasTbFigure(title)
    /\ _first([i \in 1..Len(title) |-> RX_STORAGE_GB(lower(title), i)]) # None
    /\ "storage_tb" \in DOMAIN attrs
    /\ "storage_gb" \notin DOMAIN attrs

-----------------------------------------------------------------------------
(* The query parser applied to queries put together from fragments.         *)

\* most fragments in a query
MaxQueryFrags == 2

QueryFrags ==
    {"shoes", "under 5k", "under 5kg", "Under 4,500", "under 3k", "below 3000",
     "Nike", "puma", "black", "16GB RAM", "512GB SSD", "128 gbs",
     "stainless steel bottle 1.5l"}

Queries == {JoinWords(ws) : ws \in ListsUpTo(QueryFrags, MaxQueryFrags)}

QueryInit ==
    /\ ExtIdle
    /\ pc = "start"
    /\ query \in Queries
    /\ constraints = <<>>
    /\ RankIdle
    /\ ScoreIdle
    /\ ParseIdle

\* constraints = parse_constraints(query)
ParseConstraints ==
    /\ pc = "start"
    /\ constraints' = parse_constraints(query)
    /\ pc' = "constrained"
    /\ UNCHANGED <<ext_vars, query, k, raw_results, items, items2, ranked,
                   product, score, attr_score, title, attrs>>

QueryNext == ParseConstraints

SpecQuery == QueryInit /\ [][QueryNext]_vars

\* s[a..b] is blank throughout (it may be empty)
AllBlank(s, a, b) == \A x \in a..b : IsSpace(Ch(s, x))

\* s[a..b] is digits throughout
AllDigit(s, a, b) == \A x \in a..b : IsDigit(Ch(s, x))

\* s[a..b] is digits and commas throughout
AllAmount(s, a, b) == \A x \in a..b : IsDigit(Ch(s, x)) \/ Ch(s, x) = ","

\* at i the text reads: "under", blanks, the digits s[j..e], blanks, a "k"
\* that ends a word
UnderKShape(s, i, j, e) ==
    /\ LitAt(s, i, "under")
    /\ i + 5 <= j /\ j <= e /\ e < Len(s)
    /\ AllBlank(s, i + 5, j - 1)
    /\ AllDigit(s, j, e)
    /\ \E m \in (e + 1)..Len(s) :
           /\ AllBlank(s, e + 1, m - 1)
           /\ Ch(s, m) = "k"
           /\ (m = Len(s) \/ ~IsWord(Ch(s, m + 1)))

HasUnderK(s, i) == LitAt(s, i, "under") /\ \E j, e \in i..Len(s) : UnderKShape(s, i, j, e)

\* the places where the text reads so
UnderKPlaces(s) == {i \in 1..Len(s) : HasUnderK(s, i)}

\* at i the text reads: one of the budget words, blanks, and the longest run
\* s[j..e] of digits and commas that starts with a digit
AmountShape(s, i, j, e) ==
    /\ \E w \in {"under", "below", "less than", "<="} :
           /\ LitAt(s, i, w)
           /\ i + Len(w) <= j
           /\ AllBlank(s, i + Len(w), j - 1)
    /\ j <= e /\ e <= Len(s)
    /\ IsDigit(Ch(s, j))
    /\ AllAmount(s, j, e)
    /\ (e = Len(s) \/ ~(IsDigit(Ch(s, e + 1)) \/ Ch(s, e + 1) = ","))

HasAmount(s, i) == \E j, e \in i..Len(s) : AmountShape(s, i, j, e)

\* the places where the text reads so
AmountPlaces(s) == {i \in 1..Len(s) : HasAmount(s, i)}

\* the budget rule on the lower-cased query q, given the places of both kinds
BudgetRuleAt(q, budget, ks, ps) ==
    /\ ks # {} =>
           \A j, e \in 1..Len(q) :
               UnderKShape(q, SetMin(ks), j, e)
                   => budget = Some(1000 * DigitsVal(SubSeq(q, j, e)))
    /\ (ks = {} /\ ps # {}) =>
           \A j, e \in 1..Len(q) :
               AmountShape(q, SetMin(ps), j, e)
                   => budget = Some(DigitsVal(StripCommas(SubSeq(q, j, e))))
    /\ (ks = {} /\ ps = {}) => budget = None

BudgetRule(q, budget) == BudgetRuleAt(q, budget, UnderKPlaces(q), AmountPlaces(q))

\* C9 as stated: every query that contains "under 5k" parses to budget 5000.
C9_Under5kIs5000 ==
    (pc = "constrained" /\ Contains(lower(query), "under 5k"))
        => constraints.budget = Some(5000)

\* C9, amended: the leftmost place where the lower-cased query reads "under",
\* blanks, digits N, blanks and a "k" that ends a word gives budget 1000 * N;
\* when there is no such place, the leftmost place where it reads under, below,
\* less than or <=, blanks and a run of digits and commas that starts with a
\* digit gives that run's integer with the commas dropped; when there is
\* neither, budget is None.
C9_BudgetRule ==
    pc = "constrained" => BudgetRule(lower(query), constraints.budget)

\* a query that reads "under 5k" with the k ending a word, parsed to 5000
C9_Witness ==
    /\ pc = "constrained"
    /\ Contains(lower(query), "under 5k")
    /\ UnderKPlaces(lower(query)) # {}
    /\ constraints.budget = Some(5000)

\* the lexicon a list-valued filter key is filled from
LexiconOf(key) ==
    IF key = "brand" THEN BRANDS ELSE IF key = "color" THEN COLORS ELSE MATERIALS

\* C10: every key of the filters map holds a detected value: no key holds an
\* empty list, an empty string or None; a list value holds words found in the
\* query, each once, in the order the lexicon lists them; a string value is
\* text of the query.
C10_FiltersOnlyDetected ==
    pc = "constrained" =>
        \A key \in DOMAIN constraints.filters :
            /\ Len(constraints.filters[key]) > 0
            /\ key \in {"brand", "color", "material"} =>
                   /\ \A a, b \in 1..Len(constraints.filters[key]) :
                          a # b => constraints.filters[key][a] # constraints.filters[key][b]
                   /\ constraints.filters[key]
                          = WordsIn(lower(query), LexiconOf(key), 1)
            /\ key \notin {"brand", "color", "material"} =>
                   Contains(lower(query), constraints.filters[key])

\* a parsed query with two brands, a size-free filters map and no material key
C10_Witness ==
    /\ pc = "constrained"
    /\ "brand" \in DOMAIN constraints.filters
    /\ Len(constraints.filters["brand"]) = 2
    /\ "material" \notin DOMAIN constraints.filters
    /\ "capacity_l" \notin DOMAIN constraints.filters


-----------------------------------------------------------------------------
(* services/browser.py: navigate_and_extract.  One run_site task per       *)
(* requested site runs on the event loop; an action is the resumption of a *)
(* coroutine after one of its awaits.  The site extractors are external:   *)
(* what an extractor returns or raises is chosen nondeterministically.     *)

SiteNames == {"amazon", "flipkart", "ebay"}

_EXTRACTORS == {"amazon", "flipkart"}

MaxSites == 2

\* a row as amazon.extract / flipkart.extract build it: attrs parsed from the
\* title, category None when no constraints are passed
Extracted(t, pr, ra, rc, u, src) ==
    [Listing(t, pr, ra, rc, u, src) EXCEPT
        !.attrs = parse_generic_attrs_from_title(t)]

NavA1 == Extracted("Nike Shoes", Some(2500), Some(43), Some(800), "a1", "amazon")

NavA3 == Extracted("Shoes", Some(1800), Some(45), Some(200), "a3", "amazon")

NavF1 == Extracted("Nike Shoes", Some(2600), Some(41), Some(50), "f1", "flipkart")

NavF3 == Extracted("Nike Shoes UK 9", Some(2500), Some(43), Some(800), "f3", "flipkart")

\* the listing lists a site's extractor may hand back
SiteResults(site) ==
    CASE site = "amazon"   -> {<<>>, <<NavA1>>, <<NavA1, NavA3>>}
      [] site = "flipkart" -> {<<>>, <<NavF1>>, <<NavF3, NavF1>>}
      [] OTHER             -> {}

\* what one call of an extractor does: return a list, raise TypeError, or
\* raise another Exception
ExtractOutcomes(site) ==
    {[kind |-> "ok", val |-> l] : l \in SiteResults(site)}
        \cup {[kind |-> "TypeError", val |-> <<>>],
              [kind |-> "Exception", val |-> <<>>]}

\* a run_site coroutine: where it is suspended, the value its return
\* statement holds, whether it ended by raising, the branch it took, and
\* its place in the order in which the tasks ended (0 while it runs)
Task(site) ==
    [site |-> site, pc |-> "new_page", ret |-> <<>>, exc |-> FALSE,
     why |-> "none", nth |-> 0]

\* the tasks that have ended
DoneTasks(ts) == {j \in 1..Len(ts) : ts[j].pc = "done"}

\* a task that has just ended takes the next place in the completion order
Ended(ts, t) ==
    IF t.pc = "done" THEN [t EXCEPT !.nth = Cardinality(DoneTasks(ts)) + 1]
    ELSE t

\* run_site resumed from context.new_page(): a failure is outside the try
AfterNewPage(t, ok) ==
    IF ~ok
    THEN [t EXCEPT !.pc = "done", !.exc = TRUE, !.why = "new_page"]
    ELSE IF t.site \notin _EXTRACTORS
         THEN [t EXCEPT !.pc = "close", !.ret = <<>>, !.why = "unknown_site"]
         ELSE [t EXCEPT !.pc = "extract"]

\* run_site resumed from extractor(page, query, constraints=constraints)
AfterExtract(t, out) ==
    CASE out.kind = "ok"        -> [t EXCEPT !.pc = "close", !.ret = out.val]
      [] out.kind = "TypeError" -> [t EXCEPT !.pc = "retry"]
      [] OTHER -> [t EXCEPT !.pc = "close", !.ret = <<>>, !.why = "extractor"]

\* run_site resumed from the fallback call extractor(page, query)
AfterRetry(t, out) ==
    IF out.kind = "ok"
    THEN [t EXCEPT !.pc = "close", !.ret = out.val]
    ELSE [t EXCEPT !.pc = "close", !.ret = <<>>, !.why = "extractor"]

\* run_site resumed from page.close() in the finally clause: a failure
\* replaces the pending return value
AfterClose(t, ok) ==
    IF ok
    THEN [t EXCEPT !.pc = "done"]
    ELSE [t EXCEPT !.pc = "done", !.exc = TRUE, !.why = "close"]

\* the merge loop reading the chunks up to the first exception only
MergeChunks_stop_at_failure(ts, i) ==
    LET F[j \in i..(Len(ts) + 1)] ==
            IF j > Len(ts) \/ ts[j].exc THEN <<>> ELSE ts[j].ret \o F[j + 1]
    IN F[i]

\* the merge loop reading the chunks in the order the tasks ended in
MergeChunks_completion_order(ts, i) ==
    LET F[r \in i..(Len(ts) + 1)] ==
            IF r > Len(ts) THEN <<>>
            ELSE LET j == CHOOSE x \in 1..Len(ts) : ts[x].nth = r
                 IN  (IF ts[j].exc THEN <<>> ELSE ts[j].ret) \o F[r + 1]
    IN F[i]

\* the merge loop over the gathered chunks, from chunk i on: an exception
\* is skipped, a list is appended
MergeChunks(ts, i) ==
    LET F[j \in i..(Len(ts) + 1)] ==
            IF j > Len(ts) THEN <<>>
            ELSE IF ts[j].exc THEN F[j + 1] ELSE ts[j].ret \o F[j + 1]
    IN F[i]

NavInit ==
    /\ pc = "async_playwright"
    /\ query \in {"shoes"}
    /\ constraints = <<>>
    /\ sites \in ListsUpTo(SiteNames, MaxSites)
    /\ tasks = <<>>
    /\ session = NoSession
    /\ PipeIdle
    /\ SpecsIdle
    /\ RankIdle
    /\ ScoreIdle
    /\ ParseIdle

\* where the caller goes on when navigate_and_extract returns: the
\* awaiting navigator_node returns in the same resumption
Returned(s) == IF s.caller = "navigator_node" THEN "extractor" ELSE "returned"

\* where the caller goes on when navigate_and_extract raises
Raised(s) == IF s.caller = "navigator_node" THEN "failed" ELSE "raised"

\* an await raised: the exception is on its way out
Raise(s, at) == [s EXCEPT !.exc = Append(@, at)]

\* async with async_playwright() as p: the driver is started; when that
\* fails there is nothing to leave
AsyncPlaywright ==
    /\ pc = "async_playwright"
    /\ \E ok \in BOOLEAN :
          IF ok
          THEN /\ session' = [session EXCEPT !.playwright = TRUE]
               /\ pc' = "launch"
          ELSE /\ session' = Raise(session, "async_playwright")
               /\ pc' = Raised(session)
    /\ UNCHANGED <<query, constraints, k, raw_results, items, items2, ranked,
                   product, score, attr_score, title, attrs, price_score,
                   max_price, category_hint, summary, sites, tasks, specs>>

\* browser = await p.chromium.launch(headless=True); an exception leaves
\* through the async with
Launch ==
    /\ pc = "launch"
    /\ \E ok \in BOOLEAN :
          IF ok
          THEN /\ session' = [session EXCEPT !.browser = TRUE]
               /\ pc' = "new_context"
          ELSE /\ session' = Raise(session, "launch")
               /\ pc' = "exit"
    /\ UNCHANGED <<query, constraints, k, raw_results, items, items2, ranked,
                   product, score, attr_score, title, attrs, price_score,
                   max_price, category_hint, summary, sites, tasks, specs>>

\* context = await browser.new_context(...), then the tasks are created and
\* gathered.  gather() of no task is done at once: the merge loop reads
\* nothing and the coroutine runs on to context.close().  An exception
\* leaves through the async with, the browser still open.
NewContext ==
    /\ pc = "new_context"
    /\ \E ok \in BOOLEAN :
          IF ~ok
          THEN /\ session' = Raise(session, "new_context")
               /\ pc' = "exit"
               /\ UNCHANGED <<tasks, raw_results>>
          ELSE /\ session' = [session EXCEPT !.context = TRUE]
               /\ tasks' = [i \in 1..Len(sites) |-> Task(sites[i])]
               /\ IF Len(sites) = 0
                  THEN raw_results' = MergeChunks(tasks', 1) /\ pc' = "context_close"
                  ELSE raw_results' = raw_results /\ pc' = "gather"
    /\ UNCHANGED <<query, constraints, k, items, items2, ranked,
                   product, score, attr_score, title, attrs, price_score,
                   max_price, category_hint, summary, sites, specs>>

NewPage(i) ==
    /\ pc = "gather"
    /\ tasks[i].pc = "new_page"
    /\ \E ok \in BOOLEAN :
          tasks' = [tasks EXCEPT ![i] = Ended(tasks, AfterNewPage(@, ok))]
    /\ UNCHANGED <<pc, query, constraints, k, raw_results, items, items2,
                   ranked, product, score, attr_score, title, attrs, price_score,
                   max_price, category_hint, summary, sites, session, specs>>

Extract(i) ==
    /\ pc = "gather"
    /\ tasks[i].pc = "extract"
    /\ \E out \in ExtractOutcomes(tasks[i].site) :
          tasks' = [tasks EXCEPT ![i] = AfterExtract(@, out)]
    /\ UNCHANGED <<pc, query, constraints, k, raw_results, items, items2,
                   ranked, product, score, attr_score, title, attrs, price_score,
                   max_price, category_hint, summary, sites, session, specs>>

Retry(i) ==
    /\ pc = "gather"
    /\ tasks[i].pc = "retry"
    /\ \E out \in ExtractOutcomes(tasks[i].site) :
          tasks' = [tasks EXCEPT ![i] = AfterRetry(@, out)]
    /\ UNCHANGED <<pc, query, constraints, k, raw_results, items, items2,
                   ranked, product, score, attr_score, title, attrs, price_score,
                   max_price, category_hint, summary, sites, session, specs>>

ClosePage(i) ==
    /\ pc = "gather"
    /\ tasks[i].pc = "close"
    /\ \E ok \in BOOLEAN :
          tasks' = [tasks EXCEPT ![i] = Ended(tasks, AfterClose(@, ok))]
    /\ UNCHANGED <<pc, query, constraints, k, raw_results, items, items2,
                   ranked, product, score, attr_score, title, attrs, price_score,
                   max_price, category_hint, summary, sites, session, specs>>

\* asyncio.gather(..., return_exceptions=True) completes once every task
\* has ended; the chunks are merged in the order of sites and the
\* coroutine runs on to context.close()
Merge ==
    /\ pc = "gather"
    /\ \A i \in 1..Len(tasks) : tasks[i].pc = "done"
    /\ raw_results' = MergeChunks(tasks, 1)
    /\ pc' = "context_close"
    /\ UNCHANGED <<query, constraints, k, items, items2, ranked,
                   product, score, attr_score, title, attrs, price_score,
                   max_price, category_hint, summary, sites, tasks, session,
                   specs>>

\* await context.close() in the outer finally clause; when it raises,
\* browser.close() is not reached
ContextClose ==
    /\ pc = "context_close"
    /\ \E ok \in BOOLEAN :
          IF ok
          THEN /\ session' = [session EXCEPT !.context = FALSE]
               /\ pc' = "browser_close"
          ELSE /\ session' = Raise(session, "context.close")
               /\ pc' = "exit"
    /\ UNCHANGED <<query, constraints, k, raw_results, items, items2, ranked,
                   product, score, attr_score, title, attrs, price_score,
                   max_price, category_hint, summary, sites, tasks, specs>>

\* await browser.close(), the last statement of the finally clause
BrowserClose ==
    /\ pc = "browser_close"
    /\ \E ok \in BOOLEAN :
          IF ok
          THEN session' = [session EXCEPT !.browser = FALSE]
          ELSE session' = Raise(session, "browser.close")
    /\ pc' = "exit"
    /\ UNCHANGED <<query, constraints, k, raw_results, items, items2, ranked,
                   product, score, attr_score, title, attrs, price_score,
                   max_price, category_hint, summary, sites, tasks, specs>>

\* the end of the async with block: the driver is stopped, then the
\* pending exception goes on to the caller, or results is returned; an
\* exception of the exit itself takes the place of either
ExitPlaywright ==
    /\ pc = "exit"
    /\ \E ok \in BOOLEAN :
          IF ok
          THEN /\ session' = [session EXCEPT !.playwright = FALSE]
               /\ pc' = IF session.exc = <<>> THEN Returned(session)
                        ELSE Raised(session)
          ELSE /\ session' = Raise(session, "exit")
               /\ pc' = Raised(session)
    /\ UNCHANGED <<query, constraints, k, raw_results, items, items2, ranked,
                   product, score, attr_score, title, attrs, price_score,
                   max_price, category_hint, summary, sites, tasks, specs>>

NavNext ==
    \/ AsyncPlaywright
    \/ Launch
    \/ NewContext
    \/ \E i \in 1..Len(tasks) : NewPage(i)
    \/ \E i \in 1..Len(tasks) : Extract(i)
    \/ \E i \in 1..Len(tasks) : Retry(i)
    \/ \E i \in 1..Len(tasks) : ClosePage(i)
    \/ Merge
    \/ ContextClose
    \/ BrowserClose
    \/ ExitPlaywright

SpecNavigate == NavInit /\ [][NavNext]_vars

\* the event loop resumes every coroutine whose await has completed
SpecNavigateFair == SpecNavigate /\ WF_vars(NavNext)

\* the awaits of navigate_and_extract before the tasks are gathered
BeforeGather == {"async_playwright", "launch", "new_context"}

\* the merge loop has run: the call is in the cleanup, or has left it
NavMerged ==
    \/ pc \in {"context_close", "browser_close"}
    \/ /\ pc \in {"exit", "returned", "raised"}
       /\ (session.exc = <<>> \/ session.exc[1] \notin BeforeGather)

TaskFailed(t) == t.pc = "done" /\ (t.exc \/ t.why # "none")

TaskSucceeded(t) == t.pc = "done" /\ ~t.exc /\ t.why = "none"

\* number of listings the tasks 1..n that did not raise hand over
ChunkTotal(ts, n) ==
    LET F[j \in 0..n] ==
            IF j = 0 THEN 0
            ELSE F[j - 1] + (IF ts[j].exc THEN 0 ELSE Len(ts[j].ret))
    IN F[n]

\* the listings of task i sit in the merged list, in order, after those of
\* the tasks before it
ChunkInPlace(ts, merged, i) ==
    LET off == ChunkTotal(ts, i - 1)
    IN  /\ off + Len(ts[i].ret) <= Len(merged)
        /\ \A j \in 1..Len(ts[i].ret) : merged[off + j] = ts[i].ret[j]

FailuresIsolated ==
    NavMerged =>
        /\ \A i \in 1..Len(tasks) : tasks[i].pc = "done"
        /\ \A i \in 1..Len(tasks) :
              /\ tasks[i].why \in {"unknown_site", "extractor"}
                    => tasks[i].ret = <<>>
              /\ ~tasks[i].exc => ChunkInPlace(tasks, raw_results, i)
        /\ Len(raw_results) = ChunkTotal(tasks, Len(tasks))

\* the awaits after the merge: the finally clause and the end of the
\* async with block
CleanupAwaits == {"context.close", "browser.close", "exit"}

\* once the tasks are started, an exception of the call is one of the cleanup
RaisedInCleanup ==
    (pc = "raised" /\ Len(tasks) > 0) => session.exc[1] \in CleanupAwaits

\* C12: a site task that fails (unknown site, extractor exception, page-open
\* or page-close exception) contributes nothing to the merged list and
\* touches no other task: once the tasks are started every one of them ends,
\* the merge happens, the listings of every task that did not fail are all in
\* the merged list, and the call raises only from the browser cleanup.
C12_FailuresIsolated ==
    /\ [](FailuresIsolated /\ RaisedInCleanup)
    /\ (pc = "gather") ~> NavMerged

C12_Witness ==
    /\ pc = "returned"
    /\ Len(raw_results) > 0
    /\ \E i, j \in 1..Len(tasks) :
          /\ TaskFailed(tasks[i])
          /\ TaskSucceeded(tasks[j])
          /\ Len(tasks[j].ret) > 0


-----------------------------------------------------------------------------
(* agents/summarizer_agent.py.  The source's non-ASCII characters are      *)
(* written in ASCII: the rupee sign as "Rs.", the em dash as "--", the     *)
(* typographic apostrophe as "'" and the typographic quotes as "\"".       *)

RUPEE == "Rs."

DASH == "--"

APOLOGY ==
    "I couldn't find good matches. Try tweaking the budget or adding a brand/material/size."

DigitChars == "0123456789"

RECURSIVE StrNat(_)
\* str(n) of a non-negative integer
StrNat(n) ==
    IF n < 10 THEN SubSeq(DigitChars, n + 1, n + 1)
    ELSE StrNat(n \div 10) \o SubSeq(DigitChars, (n % 10) + 1, (n % 10) + 1)

\* the "," option of the format mini-language on a digit string
GroupThousands(ds) ==
    LET F[n \in 0..Len(ds)] ==
            IF n <= 3 THEN SubSeq(ds, 1, n)
            ELSE F[n - 3] \o "," \o SubSeq(ds, n - 2, n)
    IN F[Len(ds)]

_fmt_inr(n) ==
    IF n = None THEN DASH
    ELSE IF Val(n) < 0 THEN RUPEE \o "-" \o GroupThousands(StrNat(-Val(n)))
    ELSE RUPEE \o GroupThousands(StrNat(Val(n)))

\* a rating (held in tenths) as f"{rating}" prints the float
RatingText(r) ==
    (IF r < 0 THEN "-" ELSE "") \o StrNat(Abs(r) \div 10) \o "."
        \o StrNat(Abs(r) % 10)

\* min(..., key=price): the first listing of least price, None without one
_min_price(products) ==
    LET priced == {i \in 1..Len(products) : products[i].price # None}
    IN  IF priced = {} THEN None
        ELSE Some(products[SetMin({i \in priced : \A j \in priced :
                 Val(products[i].price) <= Val(products[j].price)})])

\* max(..., key=rating): the first listing of greatest rating
_max_rating(products) ==
    LET rated == {i \in 1..Len(products) : products[i].rating # None}
    IN  IF rated = {} THEN None
        ELSE Some(products[SetMin({i \in rated : \A j \in rated :
                 Val(products[i].rating) >= Val(products[j].rating)})])

Title72(t) == SubSeq(t, 1, Min2(72, Len(t)))

Headline(n, category, q, budget) ==
    "Top " \o StrNat(n) \o " picks"
        \o (IF TruthyLen(category) THEN " in " \o Val(category) ELSE "")
        \o " for: \"" \o q \o "\""
        \o (IF TruthyNum(budget)
            THEN " (near budget " \o _fmt_inr(budget) \o ")" ELSE "")
        \o "."

CheapestLine(c) ==
    IF c = None THEN <<>>
    ELSE <<"Lowest price: " \o Title72(Val(c).title) \o " " \o DASH \o " "
             \o _fmt_inr(Val(c).price) \o " [" \o Val(c).source \o "].">>

HighestLine(h) ==
    IF h = None THEN <<>>
    ELSE <<"Highest rated: " \o Title72(Val(h).title) \o " " \o DASH \o " "
             \o RatingText(Val(Val(h).rating)) \o "/5"
             \o (IF TruthyNum(Val(h).price)
                 THEN ", " \o _fmt_inr(Val(h).price) ELSE "")
             \o " [" \o Val(h).source \o "].">>

\* " \n".join(lines)
JoinLines(lines) ==
    LET F[n \in 1..Len(lines)] ==
            IF n = 1 THEN lines[1] ELSE F[n - 1] \o " \n" \o lines[n]
    IN F[Len(lines)]

\* summarize with the empty-list test removed
summarize_no_apology(products, cons, q) ==
    JoinLines(<<Headline(Len(products), GetOpt(cons, "category"), q,
                         GetOpt(cons, "budget"))>>
              \o CheapestLine(_min_price(products))
              \o HighestLine(_max_rating(products)))

summarize(products, cons, q) ==
    IF Len(products) = 0 THEN APOLOGY
    ELSE JoinLines(<<Headline(Len(products), GetOpt(cons, "category"), q,
                              GetOpt(cons, "budget"))>>
                   \o CheapestLine(_min_price(products))
                   \o HighestLine(_max_rating(products)))

-----------------------------------------------------------------------------
(* pipelines/search_pipeline.py and graph/nodes.py: run_pipeline seeds the *)
(* graph state and the five nodes run in the order of graph/graph.py.      *)

\* run_pipeline: the constraints dict seeded from max_price, category_hint
SeedConstraints(mp, hint) ==
    IF TruthyLen(hint)
    THEN [budget |-> mp, keywords |-> <<>>, category |-> hint]
    ELSE [budget |-> mp, keywords |-> <<>>]

\* state.get("constraints") or parse_constraints(state["query"]): a dict is
\* truthy when it has a key
parser_node(cons, q) ==
    IF DOMAIN cons # {} THEN cons ELSE parse_constraints(q)

\* state.get("sites") or ["amazon", "flipkart"]
NodeSites(ss) == IF Len(ss) > 0 THEN ss ELSE <<"amazon", "flipkart">>

\* extractor_agent.run: a listing without category takes the constraint's
extractor_run(products, cons) ==
    IF DOMAIN cons # {} /\ TruthyLen(GetOpt(cons, "category"))
    THEN [i \in 1..Len(products) |->
            IF TruthyLen(products[i].category) THEN products[i]
            ELSE [products[i] EXCEPT !.category = cons["category"]]]
    ELSE products

PipeQueries == RankQueries

PipePrices == {None, Some(3000)}

PipeHints == {None, Some(""), Some("fashion")}

PipeSites == {<<>>, <<"flipkart", "amazon">>}

PipeInit ==
    /\ pc = "parser"
    /\ query \in PipeQueries
    /\ max_price \in PipePrices
    /\ category_hint \in PipeHints
    /\ sites \in PipeSites
    /\ k \in 1..MaxK
    /\ constraints = SeedConstraints(max_price, category_hint)
    /\ raw_results = <<>>
    /\ ranked = <<>>
    /\ summary = ""
    /\ items = <<>>
    /\ items2 = <<>>
    /\ tasks = <<>>
    /\ session = NoSession
    /\ SpecsIdle
    /\ ScoreIdle
    /\ ParseIdle

ParserNode ==
    /\ pc = "parser"
    /\ constraints' = parser_node(constraints, query)
    /\ pc' = "navigator"
    /\ UNCHANGED <<query, k, raw_results, items, items2, ranked,
                   product, score, attr_score, title, attrs, ext_vars>>

\* navigator_node up to its first suspension: sites takes its default,
\* navigator_run hands the query over as it is (it gets no constraints) and
\* navigate_and_extract starts.  The node goes on in the step that ends the
\* call: to the extractor stage with raw_results when it returns, out of
\* the run when it raises.
NavigatorNode ==
    /\ pc = "navigator"
    /\ sites' = NodeSites(sites)
    /\ session' = [NoSession EXCEPT !.caller = "navigator_node"]
    /\ pc' = "async_playwright"
    /\ UNCHANGED <<query, constraints, k, raw_results, items, items2, ranked,
                   product, score, attr_score, title, attrs, price_score,
                   max_price, category_hint, summary, tasks, specs>>

\* extractor_run(state.get("raw_results", [])): no constraints are passed
ExtractorNode ==
    /\ pc = "extractor"
    /\ raw_results' = extractor_run(raw_results, None)
    /\ pc' = "ranker"
    /\ UNCHANGED <<query, constraints, k, items, items2, ranked,
                   product, score, attr_score, title, attrs, ext_vars>>

RankerNode ==
    /\ pc = "ranker"
    /\ IF RankRaises(raw_results, constraints)
       THEN ranked' = ranked /\ pc' = "failed"
       ELSE /\ ranked' \in rank_products(raw_results, constraints, query, k)
            /\ pc' = "summarizer"
    /\ UNCHANGED <<query, constraints, k, raw_results, items, items2,
                   product, score, attr_score, title, attrs, ext_vars>>

SummarizerNode ==
    /\ pc = "summarizer"
    /\ summary' = summarize(ranked, constraints, query)
    /\ pc' = "end"
    /\ UNCHANGED <<query, constraints, k, raw_results, items, items2, ranked,
                   product, score, attr_score, title, attrs, price_score,
                   max_price, category_hint, sites, tasks, session, specs>>

PipeNext ==
    \/ ParserNode
    \/ NavigatorNode
    \/ NavNext
    \/ ExtractorNode
    \/ RankerNode
    \/ SummarizerNode

SpecPipeline == PipeInit /\ [][PipeNext]_vars

AfterParser == pc # "parser"

\* a seeded field is kept, a gap takes the parsed value
SeedOr(seeded, parsed) == IF seeded # None THEN seeded ELSE parsed

\* C11: after the parser stage of every run_pipeline run the constraints hold
\* the filters and the keywords parse_constraints derives from the query, the
\* budget is the caller's max_price when given and the parsed budget
\* otherwise, and the category is the caller's hint when given and the
\* parsed category otherwise.
C11_ParsedAfterParser ==
    AfterParser =>
        /\ FiltersOf(constraints) = parse_constraints(query).filters
        /\ KeywordsOf(constraints) = parse_constraints(query).keywords
        /\ GetOpt(constraints, "budget")
             = SeedOr(max_price, parse_constraints(query).budget)
        /\ GetOpt(constraints, "category")
             = SeedOr(IF TruthyLen(category_hint) THEN category_hint ELSE None,
                      parse_constraints(query).category)

\* C13: when the merged listing list is empty the ranked list is empty, for
\* the run's constraints and k and for every other constraints and k, and
\* the summary is the fixed apology string.
C13_EmptyIsApology ==
    (pc = "end" /\ raw_results = <<>>) =>
        /\ ranked = <<>>
        /\ summary = APOLOGY
        /\ \A cons \in RankConstraints \cup {constraints} : \A kk \in 0..MaxK :
              rank_products(raw_results, cons, query, kk) = {<<>>}

C13_Witness ==
    /\ pc = "end"
    /\ raw_results = <<>>
    /\ summary = APOLOGY
    /\ TruthyNum(GetOpt(constraints, "budget"))


-----------------------------------------------------------------------------
(* Claims on the ranker: filters and budget are soft *)

SamePermutation(a, b) ==
    /\ Len(a) = Len(b)
    /\ \A x \in Range(a) \cup Range(b) :
          Cardinality({i \in 1..Len(a) : a[i] = x})
             = Cardinality({i \in 1..Len(b) : b[i] = x})

\* C14: the survivors of dedup do not depend on the constraints, and with k
\* at least the number of survivors rank_products returns every survivor,
\* whatever its price and whatever filters it misses: the constraints change
\* the order only.
C14_SoftFilters ==
    pc = "ranked" =>
        /\ k >= Len(items) => SamePermutation(ranked, items)
        /\ \A cons \in RankConstraints :
              \A r \in rank_products(raw_results, cons, query, Len(raw_results)) :
                  SamePermutation(r, dedup(raw_results))

\* a run that returned every survivor, one of them priced above the budget
\* and matching none of the requested filters
C14_Witness ==
    /\ pc = "ranked"
    /\ Len(items) >= 2
    /\ k >= Len(items)
    /\ Len(ranked) = Len(items)
    /\ TruthyNum(GetOpt(constraints, "budget"))
    /\ \E i \in 1..Len(ranked) :
          /\ TruthyNum(ranked[i].price)
          /\ Val(ranked[i].price) > Val(constraints.budget)
          /\ DOMAIN FiltersOf(constraints) # {}
          /\ attribute_match_score(ranked[i], constraints) = 0


-----------------------------------------------------------------------------
(* services/utils.py specs_from_attrs / specs_from_title and               *)
(* adapters/ui_mapper.py _build_specs.  An attrs value is a string or a    *)
(* list of strings; the keys in LIST_KEYS hold lists.                      *)

ORDER_GENERIC ==
    << <<"brand", "Brand">>, <<"cpu", "CPU">>, <<"ram_gb", "RAM">>,
       <<"storage_tb", "Storage TB">>, <<"storage_gb", "Storage GB">>,
       <<"battery_mah", "Battery">>, <<"refresh_hz", "Refresh">>,
       <<"screen_in", "Screen">>, <<"color", "Color">>,
       <<"material", "Material">>, <<"capacity_l", "Capacity">>,
       <<"watt", "Watt">>, <<"size_uk", "UK">>, <<"size_us", "US">>,
       <<"size_eu", "EU">>, <<"panel", "Panel">> >>

ORDER_FASHION ==
    << <<"size_uk", "UK">>, <<"size_us", "US">>, <<"size_eu", "EU">>,
       <<"material", "Material">>, <<"color", "Color">>, <<"brand", "Brand">> >>

ORDER_HOME ==
    << <<"capacity_l", "Capacity">>, <<"material", "Material">>,
       <<"watt", "Watt">>, <<"brand", "Brand">>, <<"color", "Color">> >>

LIST_KEYS == {"brand", "cpu", "color", "material", "panel"}

\* order += [(k, l) for k, l in order_generic if k not in seen]
RECURSIVE ThenGeneric(_, _, _)
ThenGeneric(order, seen, i) ==
    IF i > Len(ORDER_GENERIC) THEN order
    ELSE ThenGeneric(IF ORDER_GENERIC[i][1] \in seen THEN order
                     ELSE Append(order, ORDER_GENERIC[i]),
                     seen, i + 1)

OrderFor(category) ==
    IF category = "fashion"
    THEN ThenGeneric(ORDER_FASHION, {e[1] : e \in Range(ORDER_FASHION)}, 1)
    ELSE IF category \in {"home-kitchen", "appliances"}
    THEN ThenGeneric(ORDER_HOME, {e[1] : e \in Range(ORDER_HOME)}, 1)
    ELSE ORDER_GENERIC

\* ", ".join(map(str, val[:3]))
JoinComma(xs) ==
    LET F[n \in 0..Min2(3, Len(xs))] ==
            IF n = 0 THEN ""
            ELSE IF n = 1 THEN xs[1]
            ELSE F[n - 1] \o ", " \o xs[n]
    IN F[Min2(3, Len(xs))]

_short(label, val, is_list) ==
    label \o ": " \o (IF is_list THEN JoinComma(val) ELSE val)

\* the loop of specs_from_attrs from entry i of the order on
RECURSIVE SpecsLoop(_, _, _, _)
SpecsLoop(order, pattrs, i, out) ==
    IF i > Len(order) \/ Len(out) >= 6 THEN out
    ELSE SpecsLoop(order, pattrs, i + 1,
                   IF order[i][1] \in DOMAIN pattrs
                      /\ Len(pattrs[order[i][1]]) > 0
                   THEN Append(out, _short(order[i][2], pattrs[order[i][1]],
                                           order[i][1] \in LIST_KEYS))
                   ELSE out)

specs_from_attrs(category, pattrs) ==
    IF DOMAIN pattrs = {} THEN <<>>
    ELSE SpecsLoop(OrderFor(category), pattrs, 1, <<>>)

specs_from_title(ttl) ==
    specs_from_attrs("", parse_generic_attrs_from_title(ttl))

\* the merge loop of _build_specs from entry i of the title specs on
RECURSIVE MergeSpecs(_, _, _)
MergeSpecs(more, i, out) ==
    IF i > Len(more) \/ Len(out) >= 6 THEN out
    ELSE MergeSpecs(more, i + 1,
                    IF more[i] \in Range(out) THEN out
                    ELSE Append(out, more[i]))

BuildFrom(structured, ttl) ==
    Take(IF Len(structured) < 4
         THEN MergeSpecs(specs_from_title(ttl), 1, structured)
         ELSE structured, 6)

_build_specs(p) ==
    BuildFrom(specs_from_attrs(IF TruthyLen(p.category) THEN Val(p.category)
                               ELSE "", p.attrs),
              p.title)

SpecsTitles ==
    {"Dell Laptop i5 16GB RAM 512GB storage",
     "Nike Shoes UK 9 Black Leather",
     "Steel Bottle 1.5L",
     "Phone 8GB RAM 5000mAh 120Hz AMOLED 6.5 inch Blue",
     "Shoes"}

\* structured attrs that did not come from the title
SpecsAttrs ==
    {<<>>,
     [ram_gb |-> "8"],
     [brand |-> <<"Nike">>, color |-> <<"black", "red", "blue", "green">>],
     [brand |-> <<"Dell">>, cpu |-> <<"i7">>, ram_gb |-> "32",
      storage_tb |-> "1", screen_in |-> "15.6", color |-> <<"silver">>,
      watt |-> "65", panel |-> <<"oled">>],
     [capacity_l |-> "2", material |-> <<"steel">>, size_uk |-> ""]}

SpecsCategories == {None, Some("fashion"), Some("appliances"), Some("electronics")}

SpecsProducts ==
    {[Listing(t, Some(2500), Some(43), Some(800), "a1", "amazon") EXCEPT
         !.category = c, !.attrs = a] :
        t \in SpecsTitles, c \in SpecsCategories, a \in SpecsAttrs}
    \cup
    {[Extracted(t, Some(2500), Some(43), Some(800), "a1", "amazon") EXCEPT
         !.category = c] :
        t \in SpecsTitles, c \in SpecsCategories}

SpecsInit ==
    /\ pc = "start"
    /\ product \in {Some(p) : p \in SpecsProducts}
    /\ specs = <<>>
    /\ score = 0
    /\ attr_score = 0
    /\ price_score = 0
    /\ query = ""
    /\ constraints = <<>>
    /\ PipeIdle
    /\ NavIdle
    /\ RankIdle
    /\ ParseIdle

\* map_for_ui: specifications = _build_specs(p)
BuildSpecs ==
    /\ pc = "start"
    /\ specs' = _build_specs(Val(product))
    /\ pc' = "built"
    /\ UNCHANGED <<query, constraints, k, raw_results, items, items2, ranked,
                   product, score, attr_score, title, attrs, price_score,
                   max_price, category_hint, summary, sites, tasks, session>>

SpecsNext == BuildSpecs

SpecSpecs == SpecsInit /\ [][SpecsNext]_vars

\* the label of a display entry: the text before its first colon
LabelOf(entry) ==
    SubSeq(entry, 1,
           SetMin({i \in 1..Len(entry) : SubSeq(entry, i, i) = ":"}) - 1)

\* C15: the display list built by _build_specs has at most 6 entries and no
\* two entries carry the same label, also when entries derived from the title
\* were merged in.
C15_SixDistinctLabels ==
    pc = "built" =>
        /\ Len(specs) <= 6
        /\ \A i, j \in 1..Len(specs) :
              i # j => LabelOf(specs[i]) # LabelOf(specs[j])


-----------------------------------------------------------------------------
(* services/scoring.py score_product, step 2: the price fitness term on    *)
(* its own, over prices on both sides of the budget                        *)

PricePool ==
    {None, Some(0), Some(1), Some(50), Some(100), Some(101), Some(1000),
     Some(2750), Some(2999), Some(3000), Some(3001), Some(3300), Some(4500),
     Some(5400), Some(6000), Some(9000)}

BudgetPool == {None, Some(0), Some(1), Some(100), Some(3000)}

PriceInit ==
    /\ pc = "start"
    /\ product \in {Some(Listing("Kettle", pr, None, None, "a1", "amazon")) :
                       pr \in PricePool}
    /\ constraints \in {[budget |-> b, keywords |-> <<>>] : b \in BudgetPool}
    /\ query = "kettle"
    /\ score = 0
    /\ attr_score = 0
    /\ price_score = 0
    /\ PipeIdle
    /\ NavIdle
    /\ SpecsIdle
    /\ RankIdle
    /\ ParseIdle

\* price_score as score_product computes it from p.price and the budget
PriceStep ==
    /\ pc = "start"
    /\ price_score' = PriceScore(Val(product).price, GetOpt(constraints, "budget"))
    /\ pc' = "priced"
    /\ UNCHANGED <<query, constraints, k, raw_results, items, items2, ranked,
                   product, score, attr_score, title, attrs,
                   max_price, category_hint, summary, sites, tasks, session, specs>>

\* the rest of score_product: the weighted total and the clamp
TotalStep ==
    /\ pc = "priced"
    /\ IF ScoreRaises(constraints)
       THEN score' = score /\ pc' = "raised"
       ELSE /\ score' = score_product(Val(product), constraints, query)
            /\ pc' = "scored"
    /\ UNCHANGED <<query, constraints, k, raw_results, items, items2, ranked,
                   product, attr_score, title, attrs, ext_vars>>

PriceNext == PriceStep \/ TotalStep

SpecPrice == PriceInit /\ [][PriceNext]_vars

Priced == pc \in {"priced", "scored"}

\* the fitness the two formulas give for price pr and budget b > 0
FormulaFitness(pr, b) ==
    IF pr <= b
    THEN Max2(Unit \div 4, Unit - MulDiv(pr * 6, Unit \div 10, b))
    ELSE IF (pr - b) * 12 >= 10 * b THEN Unit \div 20
    ELSE Max2(Unit \div 20, Unit - MulDiv((pr - b) * 12, Unit \div 10, b))

\* C16: with a non-negative price and a positive budget both present the
\* price fitness is max(0.25, 1 - 0.6*price/budget) up to the budget and
\* max(0.05, 1 - 1.2*(price-budget)/budget) above it; with the price or the
\* budget absent it is the neutral 0.45.
C16_PriceFitnessFormula ==
    Priced =>
        IF Val(product).price # None /\ GetOpt(constraints, "budget") # None
        THEN (Val(Val(product).price) >= 0 /\ Val(constraints.budget) > 0)
                => price_score = FormulaFitness(Val(Val(product).price),
                                                Val(constraints.budget))
        ELSE price_score = (45 * Unit) \div 100

\* C18: for a fixed budget a listing priced above the budget never has a
\* higher price fitness than a listing priced at or below the budget.
C18_OveragePenalised ==
    (/\ Priced
     /\ TruthyNum(GetOpt(constraints, "budget"))
     /\ TruthyNum(Val(product).price)
     /\ Val(Val(product).price) > Val(constraints.budget))
    => \A other \in PricePool :
          (other # None /\ Val(other) >= 0 /\ Val(other) <= Val(constraints.budget))
             => price_score <= PriceScore(other, constraints.budget)


-----------------------------------------------------------------------------
(* Claims on the brand block of attribute_match_score *)

\* the listing's attribute key holds a list that overlaps the wanted brands
AttrOverlaps(pattrs, key, wanted) ==
    key \in DOMAIN pattrs /\ _any_overlap(pattrs[key], wanted)

\* the credit the brand rule gives: 1.0 on an overlap of the brand or of the
\* maker attribute, else 0.8 on a brand token in the title, else 0
BrandCredit(p, wanted) ==
    IF AttrOverlaps(p.attrs, "brand", wanted) \/ AttrOverlaps(p.attrs, "maker", wanted)
    THEN Unit
    ELSE IF AnyBrandIn(lower(p.title), wanted) THEN (8 * Unit) \div 10
    ELSE 0

\* C19: with a brand filter requested (and no other filter) the attribute
\* score is the brand credit: 1.0 whenever the listing's brand attribute or
\* its maker attribute overlaps a requested brand, 0.8 when neither does but
\* the title contains a requested brand, 0 otherwise.
C19_BrandOrMaker ==
    (/\ pc = "matched"
     /\ DOMAIN FiltersOf(constraints) = {"brand"}
     /\ Len(FiltersOf(constraints)["brand"]) > 0)
    => attr_score = BrandCredit(Val(product), FiltersOf(constraints)["brand"])


-----------------------------------------------------------------------------
(* Claims that compare the query parser with the title extractor *)

\* C20: for every text containing "gb" the ram_gb filter parse_constraints
\* produces equals the ram_gb attribute parse_generic_attrs_from_title
\* produces on the same text: both absent or both the same string.
C20_SameRamPattern ==
    (pc = "constrained" /\ Contains(lower(query), "gb"))
    => Get(FiltersOf(constraints), "ram_gb")
          = Get(parse_generic_attrs_from_title(query), "ram_gb")


-----------------------------------------------------------------------------
(* score_product, attribute_match_score and rank_products over every       *)
(* combination of present and absent optional fields.  An absent listing   *)
(* field is None; an absent constraint field is a missing key, or a key    *)
(* that holds None as parse_constraints writes an absent budget.           *)

ComboProducts ==
    {[title |-> "Nike Shoes UK 9", price |-> pr, rating |-> ra,
      review_count |-> rc, url |-> "a1", source |-> "amazon",
      category |-> c, attrs |-> a] :
        pr \in {None, Some(2500)}, ra \in {None, Some(43)},
        rc \in {None, Some(800)}, c \in {None, Some("fashion")},
        a \in {<<>>, [brand |-> <<"Nike">>, size_uk |-> "9"]}}

ComboFull ==
    [budget : {None, Some(3000)},
     category : {None, Some("fashion")},
     filters : {<<>>, [brand |-> <<"nike">>, size_uk |-> "9"]},
     keywords : {<<>>, <<"nike", "uk">>}]

ComboKeys == SUBSET {"budget", "category", "filters", "keywords"}

ComboConstraints ==
    {[key \in keys |-> c[key]] : c \in ComboFull, keys \in ComboKeys}
    \cup
    {[key \in keys \cup {"none_keys"} |->
         IF key = "none_keys" THEN {"keywords"} ELSE c[key]] :
        c \in {x \in ComboFull : x.keywords = <<>>},
        keys \in {ks \in ComboKeys : "keywords" \in ks}}

ComboInit ==
    /\ pc = "start"
    /\ product \in {Some(p) : p \in ComboProducts}
    /\ constraints \in ComboConstraints
    /\ query = "nike shoes"
    /\ k = 1
    /\ raw_results = <<Val(product)>>
    /\ items = <<>>
    /\ items2 = <<>>
    /\ ranked = <<>>
    /\ score = 0
    /\ attr_score = 0
    /\ price_score = 0
    /\ PipeIdle
    /\ NavIdle
    /\ SpecsIdle
    /\ ParseIdle

ComboNext == ScoreProduct \/ AttributeMatchScore \/ RankProducts

SpecCombos == ComboInit /\ [][ComboNext]_vars

\* the weighted total with every absent field replaced by its documented
\* neutral value: 0.45 for the price term, 0 for the others
NeutralTotal(p, cons, q) ==
    WeightedSum(<<TitleSim(p, q),
                  IF p.price = None \/ GetOpt(cons, "budget") = None
                  THEN (45 * Unit) \div 100
                  ELSE PriceScore(p.price, GetOpt(cons, "budget")),
                  IF p.rating = None THEN 0 ELSE RatingScore(p.rating),
                  IF p.review_count = None THEN 0
                  ELSE ReviewBoost(p.review_count),
                  IF DOMAIN FiltersOf(cons) = {} THEN 0
                  ELSE attribute_match_score(p, cons)>>)
    + (IF Len(KeywordsOf(cons)) = 0 THEN 0 ELSE KwBonus(p, cons["keywords"]))

\* C17: score_product, attribute_match_score and rank_products return a
\* value, and never raise, for every combination of present and absent
\* optional listing fields and constraint fields, and each absent field
\* contributes its neutral value: 0.45 for a missing price or budget, 0 for
\* a missing rating, review count, filter map or keyword list.
C17_AbsentIsNeutral ==
    /\ pc = "scored" =>
          score = ClampScore(NeutralTotal(Val(product), constraints, query))
    /\ pc = "matched" =>
          (DOMAIN FiltersOf(constraints) = {} => attr_score = 0)
    /\ pc = "ranked" => ranked = <<Val(product)>>
    /\ pc # "raised"

-----------------------------------------------------------------------------
(* The storage_gb filter of the query parser.                               *)

\* the storage_gb search runs: "gb" is in the text and no ram_gb was found
StorageGbAttempted(q) == Contains(q, "gb") /\ ~TruthyLen(RamGbOf(q))

\* C21: parse_constraints never produces a storage_gb filter: the RAM and
\* storage-GB patterns are the same expression and storage_gb is searched
\* for only when ram_gb was not found, so for every query the returned
\* filters map has no storage_gb key.
C21_NoStorageGbFilter ==
    pc = "constrained" => "storage_gb" \notin DOMAIN constraints.filters

\* a parsed query that holds "gb" and gave no ram_gb, so that the storage_gb
\* search ran, and one more filter was found in it
C21_Witness ==
    /\ pc = "constrained"
    /\ StorageGbAttempted(lower(query))
    /\ "ram_gb" \notin DOMAIN constraints.filters
    /\ "brand" \in DOMAIN constraints.filters

-----------------------------------------------------------------------------
(* The category of the listings after the extractor stage.                  *)

\* the extractor stage of a run whose constraints carry a category
ExtractorStageWithCategory ==
    /\ pc = "extractor"
    /\ pc' = "ranker"
    /\ TruthyLen(GetOpt(constraints, "category"))

\* C22: after the extractor stage of a pipeline run whose constraints carry
\* a category, every listing in raw_results has a non-empty category, equal
\* to the constraint category when the site extractor left it unset.
C22_CategoryFilled ==
    [][ExtractorStageWithCategory =>
          /\ Len(raw_results') = Len(raw_results)
          /\ \A i \in 1..Len(raw_results) :
                /\ TruthyLen(raw_results'[i].category)
                /\ ~TruthyLen(raw_results[i].category) =>
                      raw_results'[i].category = constraints["category"]]_vars

-----------------------------------------------------------------------------
(* The order of the merged list of navigate_and_extract.                    *)

\* what the task of the n-th requested site handed over
ChunkOf(ts, n) == IF ts[n].exc THEN <<>> ELSE ts[n].ret

\* the per-site results put one after the other in the order of sites
SiteOrderConcat(ts) ==
    LET F[n \in 0..Len(ts)] ==
            IF n = 0 THEN <<>> ELSE F[n - 1] \o ChunkOf(ts, n)
    IN F[Len(ts)]

\* of two near-duplicate listings handed over by different site tasks, the
\* one of the later site in sites is never kept with the earlier one
EarlierSiteWins(ts, kept) ==
    \A i, j \in 1..Len(ts) :
        (i < j /\ ts[i].site # ts[j].site) =>
            \A a \in 1..Len(ChunkOf(ts, i)) : \A b \in 1..Len(ChunkOf(ts, j)) :
                (/\ similar(ChunkOf(ts, i)[a].title, ChunkOf(ts, j)[b].title)
                       > 88 * SimUnit
                 /\ ChunkOf(ts, i)[a] \in Range(kept))
                    => ChunkOf(ts, j)[b] \notin Range(kept)

\* C23: the merged list returned by navigate_and_extract is the
\* concatenation of the per-site results in the order of the requested
\* sites list, whatever order the concurrent site tasks start, interleave or
\* complete in; so which of two cross-site near-duplicates survives dedup
\* depends only on the sites order, not on timing.
C23_MergeInSitesOrder ==
    NavMerged =>
        /\ Len(tasks) = Len(sites)
        /\ \A i \in 1..Len(tasks) : tasks[i].site = sites[i]
        /\ raw_results = SiteOrderConcat(tasks)
        /\ EarlierSiteWins(tasks, dedup(raw_results))

\* flipkart was requested before amazon, the amazon task ended first, both
\* handed over a "Nike Shoes" listing, and dedup keeps the flipkart one
C23_Witness ==
    /\ pc = "returned"
    /\ sites = <<"flipkart", "amazon">>
    /\ tasks[2].nth < tasks[1].nth
    /\ NavF1 \in Range(ChunkOf(tasks, 1))
    /\ NavA1 \in Range(ChunkOf(tasks, 2))
    /\ NavF1 \in Range(dedup(raw_results))
    /\ NavA1 \notin Range(dedup(raw_results))

-----------------------------------------------------------------------------
(* services/scoring.py score_product: the size of the weighted total.  The  *)
(* listings put every term at or near its largest value, with the price,    *)
(* the rating and the budget inside and outside their usual ranges.         *)

BoundTitle == "Nike Black Leather Waterproof Running Shoes"

BoundPrices == {None, Some(0), Some(1), Some(3000), Some(-2000)}

BoundRatings == {None, Some(0), Some(43), Some(50), Some(60), Some(-10)}

BoundReviews == {None, Some(600), Some(100000)}

BoundBudgets == {None, Some(1), Some(3000), Some(-100)}

BoundProducts ==
    {WithAttrs(Listing(BoundTitle, pr, ra, rc, "a1", "amazon"),
               [brand |-> <<"Nike">>, color |-> <<"Black">>]) :
        pr \in BoundPrices, ra \in BoundRatings, rc \in BoundReviews}

BoundKeywords ==
    {<<>>, <<"nike", "black", "leather", "waterproof", "running", "shoes">>}

BoundConstraints ==
    {[budget |-> b, category |-> None,
      filters |-> [brand |-> <<"nike">>, color |-> <<"black">>],
      keywords |-> kws] : b \in BoundBudgets, kws \in BoundKeywords}

BoundInit ==
    /\ ExtIdle
    /\ pc = "start"
    /\ product \in {Some(p) : p \in BoundProducts}
    /\ constraints \in BoundConstraints
    /\ query = "nike black leather waterproof running shoes"
    /\ score = 0
    /\ attr_score = 0
    /\ price_score = 0
    /\ RankIdle
    /\ ParseIdle

BoundNext == ScoreProduct \/ AttributeMatchScore

SpecBound == BoundInit /\ [][BoundNext]_vars

\* the rating is absent or in [0, 5], the price is absent or non-negative
\* and the budget is absent or positive
InUsualRanges(p, cons) ==
    /\ p.rating = None \/ (0 <= Val(p.rating) /\ Val(p.rating) <= 50)
    /\ p.price = None \/ Val(p.price) >= 0
    /\ GetOpt(cons, "budget") = None \/ Val(GetOpt(cons, "budget")) > 0

\* 0.30 + 0.30 + 0.18 + 0.10 + 0.12 + 0.15
TotalCeiling == (115 * Unit) \div 100

\* C24: for every listing whose rating is absent or in [0, 5] and whose price
\* is absent or non-negative, and every positive or absent budget, the
\* weighted sum in score_product is at most 1.15, so the upper clamp at 1.6
\* never changes the result.
C24_TotalAtMostCeiling ==
    (pc = "scored" /\ InUsualRanges(Val(product), constraints)) =>
        /\ WeightedTotal(Val(product), constraints, query) <= TotalCeiling
        /\ score = Max2(0, WeightedTotal(Val(product), constraints, query))

\* a listing inside the ranges whose every term is at or next to its top:
\* the total is within 0.001 of 1.15 and is the score returned
C24_Witness ==
    /\ pc = "scored"
    /\ InUsualRanges(Val(product), constraints)
    /\ Val(product).price = Some(1)
    /\ Val(product).rating = Some(50)
    /\ score > TotalCeiling - Unit \div 1000
    /\ score = WeightedTotal(Val(product), constraints, query)

=============================================================================
